---- MODULE Spec2Model ----
(***************************************************************************)
(* A model of the planning and fulfilment engine of the farm planner:      *)
(* the inventory ledger (operations/models.py, operations/views.py), the   *)
(* inventory dashboards (operations/views.py, core/views.py) and the event *)
(* generator and harvest recording (planning/models.py, planning/views.py, *)
(* operations/views.py).                                                   *)
(*                                                                         *)
(* Dates are day numbers, decimals are integers (whole units).  A table of *)
(* the database is a sequence of rows in creation order: the index of a    *)
(* row is its primary key, and created_at is increasing in it.             *)
(***************************************************************************)
EXTENDS Integers, Sequences, FiniteSets, TLC

VARIABLES
    ledger,      \* InventoryLedger rows
    calls,       \* per ledger row: the call that created it (input, messages)
    today,       \* date.today()
    pc,          \* concurrent requests: position of each request in form_valid
    req,         \* concurrent requests: the locals of each request
    plantings,   \* Planting rows
    nursery,     \* NurseryEvent rows
    harvests,    \* HarvestEvent rows
    gen,         \* generate_harvest_events in progress: its locals
    years,       \* PlanningYear rows: the status of each year
    history,     \* RotationHistory rows
    rules,       \* RotationRule rows: min_gap_years of each botanical family
    walk_notes,  \* FieldWalkNote rows
    channels,    \* SalesChannel rows
    formats,     \* CropSalesFormat rows
    view         \* the view that answered last: its input and what it returned

vars ==
    <<ledger, calls, today, pc, req, plantings, nursery, harvests, gen,
      years, history, rules, walk_notes, channels, formats, view>>

ledgerVars == <<ledger, calls>>
concVars == <<pc, req>>
eventVars == <<plantings, nursery, harvests, gen>>
seasonVars == <<years, history, rules, walk_notes>>
salesVars == <<channels, formats>>

-----------------------------------------------------------------------------
(* Bounds of the model *)

MaxEntries == 2
MaxDay == 2

Days == 1..MaxDay

Crops == {"carrot", "onion"}

\* The choices of TransactionForm.event_type
FormEventTypes ==
    {"sale_out", "waste_out", "return_in", "adjustment", "quality_check"}

\* Raw quantities a user may type into TransactionForm.quantity (a
\* DecimalField without min_value: negative numbers pass validation).
RawQuantities == {-1, 2}

\* Entries saved through the model directly (no form): a type of
\* InventoryLedger.EVENT_TYPES the form does not offer, and its quantity
SaveEventTypes == {"harvest_in"}
SaveQuantities == {1}

Abs(x) == IF x < 0 THEN -x ELSE x

-----------------------------------------------------------------------------
(* The inventory ledger *)

\* Entries of a crop, as row indexes
CropRows(led, crop) == {i \in 1..Len(led) : led[i].crop = crop}

\* i is at or before j in (event_date, creation order)
AtOrBefore(led, i, j) ==
    \/ led[i].event_date < led[j].event_date
    \/ led[i].event_date = led[j].event_date /\ i <= j

\* .order_by("-event_date", "-created_at").first() over a set of rows:
\* the row index, or 0 for None
FirstDescending(led, rows) ==
    IF rows = {} THEN 0
    ELSE CHOOSE i \in rows : \A j \in rows : AtOrBefore(led, j, i)

\* The query of InventoryLedger.save: the last entry of the crop dated at or
\* before event_date (the row being created has no pk yet, so the exclude
\* removes nothing)
SaveLast(led, crop, event_date) ==
    FirstDescending(led, {i \in CropRows(led, crop) : led[i].event_date <= event_date})

\* The query of InventoryTransactionView.form_valid: the last entry of the crop
FormLast(led, crop) == FirstDescending(led, CropRows(led, crop))

BalanceOf(led, i) == IF i = 0 THEN 0 ELSE led[i].running_balance

\* InventoryLedger.save: the running_balance the row is stored with. given is
\* FALSE when the caller set no running_balance (None); a balance of zero is
\* falsy too, and is computed again.
SavedBalance(led, crop, event_date, quantity, given, running_balance) ==
    IF ~given \/ running_balance = 0
    THEN BalanceOf(led, SaveLast(led, crop, event_date)) + quantity
    ELSE running_balance

SignedQuantityNoAbs(event_type, raw_qty) ==
    IF event_type \in {"sale_out", "waste_out"} THEN -raw_qty
    ELSE IF event_type = "quality_check" THEN 0
    ELSE raw_qty

\* form_valid: "Apply sign convention"
SignedQuantity(event_type, raw_qty) ==
    IF event_type \in {"sale_out", "waste_out"} THEN -Abs(raw_qty)
    ELSE IF event_type = "quality_check" THEN 0
    ELSE Abs(raw_qty)

NegativeWarningNever(new_balance) == FALSE

\* form_valid: messages.warning is issued
NegativeWarning(new_balance) == new_balance < 0

Entry(crop, event_date, event_type, quantity, running_balance) ==
    [crop |-> crop, event_date |-> event_date, event_type |-> event_type,
     quantity |-> quantity, running_balance |-> running_balance]

\* InventoryTransactionView.form_valid, with the InventoryLedger.save that
\* objects.create runs
FormValid(crop, event_type, raw_qty) ==
    /\ Len(ledger) < MaxEntries
    /\ LET quantity == SignedQuantity(event_type, raw_qty)
           prev_balance == BalanceOf(ledger, FormLast(ledger, crop))
           new_balance == prev_balance + quantity
           stored == SavedBalance(ledger, crop, today, quantity, TRUE, new_balance)
       IN /\ ledger' = Append(ledger, Entry(crop, today, event_type, quantity, stored))
          /\ calls' = Append(calls,
                 [via |-> "form", raw_qty |-> raw_qty, new_balance |-> new_balance,
                  warned |-> NegativeWarning(new_balance)])
    /\ UNCHANGED <<salesVars, seasonVars, view, today, concVars, eventVars>>

\* InventoryLedger.save of a new row whose running_balance the caller left
\* unset, for an event date that may lie in the past (an entry records
\* something that has happened: no entry is dated after today)
LedgerSave(crop, event_date, event_type, quantity) ==
    /\ Len(ledger) < MaxEntries
    /\ event_date <= today
    /\ LET stored == SavedBalance(ledger, crop, event_date, quantity, FALSE, 0)
       IN /\ ledger' = Append(ledger, Entry(crop, event_date, event_type, quantity, stored))
          /\ calls' = Append(calls,
                 [via |-> "save", raw_qty |-> quantity, new_balance |-> stored,
                  warned |-> FALSE])
    /\ UNCHANGED <<salesVars, seasonVars, view, today, concVars, eventVars>>

\* The calendar day changes
Tick ==
    /\ today < MaxDay
    /\ today' = today + 1
    /\ UNCHANGED <<salesVars, seasonVars, view, ledgerVars, concVars, eventVars>>

-----------------------------------------------------------------------------
(* The balance queries of the dashboards *)

MaxOf(S) == CHOOSE x \in S : \A y \in S : y <= x

CropsWithRows(led, rows) == {led[i].crop : i \in rows}

\* InventoryDashboardView: values("crop_id").annotate(latest_id=Max("id")),
\* the row of the greatest id of the crop
InventoryDashboardLatest(led, crop) == MaxOf(CropRows(led, crop))

\* InventoryDashboardView: the items shown (entries of balance <= 0 are skipped)
InventoryDashboardItems(led) ==
    {[crop |-> crop,
      balance |-> led[InventoryDashboardLatest(led, crop)].running_balance] :
        crop \in {c \in CropsWithRows(led, 1..Len(led)) :
                    led[InventoryDashboardLatest(led, c)].running_balance > 0}}

\* DashboardView: per crop, Max("event_date") over the entries dated on or
\* before today, then the entry of that date created last
DashboardLatest(led, crop, day) ==
    LET past == {i \in CropRows(led, crop) : led[i].event_date <= day}
        latest_date == MaxOf({led[i].event_date : i \in past})
    IN MaxOf({i \in CropRows(led, crop) : led[i].event_date = latest_date})

\* DashboardView: inventory_summary
DashboardItems(led, day) ==
    LET past == {i \in 1..Len(led) : led[i].event_date <= day}
    IN {[crop |-> crop,
         balance |-> led[DashboardLatest(led, crop, day)].running_balance] :
           crop \in {c \in CropsWithRows(led, past) :
                       led[DashboardLatest(led, c, day)].running_balance > 0}}

-----------------------------------------------------------------------------
(* Two requests running InventoryTransactionView.form_valid at the same    *)
(* time.  The view opens no transaction and takes no lock, so each query   *)
(* of a request is a step of its own, and the steps of the two requests    *)
(* interleave in any order.                                                *)

Requests == {"r1", "r2"}

NoRequest ==
    [crop |-> "", event_type |-> "", raw_qty |-> 0, quantity |-> 0,
     new_balance |-> 0, warned |-> FALSE, stored |-> 0]

\* form_valid up to the sign convention: the cleaned form data
ConcBegin(r, crop, event_type, raw_qty) ==
    /\ pc[r] = "idle"
    /\ pc' = [pc EXCEPT ![r] = "lookup"]
    /\ req' = [req EXCEPT ![r] =
                 [NoRequest EXCEPT !.crop = crop, !.event_type = event_type,
                                   !.raw_qty = raw_qty,
                                   !.quantity = SignedQuantity(event_type, raw_qty)]]
    /\ UNCHANGED <<salesVars, seasonVars, view, ledgerVars, today, eventVars>>

\* form_valid: the query for the latest entry, and the new balance
ConcLookup(r) ==
    /\ pc[r] = "lookup"
    /\ LET new_balance == BalanceOf(ledger, FormLast(ledger, req[r].crop)) + req[r].quantity
       IN req' = [req EXCEPT ![r].new_balance = new_balance,
                             ![r].warned = NegativeWarning(new_balance)]
    /\ pc' = [pc EXCEPT ![r] = "create"]
    /\ UNCHANGED <<salesVars, seasonVars, view, ledgerVars, today, eventVars>>

\* objects.create: InventoryLedger.save up to super().save (its query runs
\* when the balance given is zero)
ConcCreate(r) ==
    /\ pc[r] = "create"
    /\ req' = [req EXCEPT ![r].stored =
                 SavedBalance(ledger, req[r].crop, today, req[r].quantity, TRUE,
                              req[r].new_balance)]
    /\ pc' = [pc EXCEPT ![r] = "insert"]
    /\ UNCHANGED <<salesVars, seasonVars, view, ledgerVars, today, eventVars>>

\* super().save: the INSERT
ConcInsert(r) ==
    /\ pc[r] = "insert"
    /\ ledger' = Append(ledger,
           Entry(req[r].crop, today, req[r].event_type, req[r].quantity, req[r].stored))
    /\ calls' = Append(calls,
           [via |-> "form", raw_qty |-> req[r].raw_qty,
            new_balance |-> req[r].new_balance, warned |-> req[r].warned])
    /\ pc' = [pc EXCEPT ![r] = "done"]
    /\ UNCHANGED <<salesVars, seasonVars, view, req, today, eventVars>>

-----------------------------------------------------------------------------
(* The event generator and the recording of harvests.  The generator reads *)
(* and writes the rows of one planting only: the model follows one         *)
(* planting from its creation by PlantingCreateView.                       *)

MaxNurseryWeeks == 2
MaxHarvestWeeks == 4
MaxRuns == 2

\* null of a DateField, of a DecimalField
NoDate == 0
NoQuantity == 0 - 1

\* PlanningYear.year of the rows
PlanningYears == {2024, 2025}

YearStatuses == {"planning", "active", "complete", "archived"}

\* None of a PlanningYear
NoYear == 0

\* PlanningYear.objects.filter(status__in=statuses).first(): the queryset has
\* no ordering, so first() takes the row of the least primary key; the years
\* were created in their order
FirstYear(yrs, statuses) ==
    LET found == {y \in DOMAIN yrs : yrs[y] \in statuses}
    IN IF found = {} THEN NoYear ELSE CHOOSE y \in found : \A z \in found : y <= z

Blocks == {"A", "B"}

\* CropInfo.botanical_family (blank=True: "" is a crop with no family)
Families == {"Brassicaceae", "Solanaceae"}
NoFamily == ""

\* CropInfo rows of propagation_type "seed": units_per_bin 0 and
\* seeds_per_ounce 0 are null
CropInfos ==
    [name : Crops, botanical_family : Families \cup {NoFamily},
     nursery_weeks : 0..MaxNurseryWeeks,
     weeks_until_pot_up : 0..MaxNurseryWeeks, units_per_bin : {0, 2},
     seeds_per_ounce : {0, 100}]

\* CropBySeason rows with no tp_inrow_spacing: ds_seed_rate 0 is null
CropSeasons ==
    [dtm_days : {0, 3}, harvest_weeks : 0..MaxHarvestWeeks,
     total_yield_per_bedfoot : {0, 2}, rows_per_bed : {0, 2},
     ds_seed_rate : {0, 2}]

\* planned_bedfeet of a planting: beds * block.bedfeet_per_bed
Bedfeet == {0, 5}

\* planned_plant_date entered in the planting form
PlantDates == {30}

Weeks(n) == 7 * n

\* Dates an administrator may give planned_last_harvest_date, for a first
\* harvest date
LastHarvestDates(first) ==
    {first + Weeks(k) + d : k \in 0..(MaxHarvestWeeks - 1), d \in {-1, 0, 1}}

\* Planting.save: "if not self.planned_total_yield", true of None and of a
\* yield of zero
YieldUnset(planned_total_yield) ==
    planned_total_yield = NoQuantity \/ planned_total_yield = 0

\* Planting.save: the planned fields are derived when they are unset
PlantingSave(p) ==
    LET first == IF p.planned_first_harvest_date = NoDate
                    /\ p.planned_plant_date # NoDate
                 THEN p.planned_plant_date + p.crop_season.dtm_days
                 ELSE p.planned_first_harvest_date
        last == IF p.planned_last_harvest_date = NoDate /\ first # NoDate
                THEN first + Weeks(p.crop_season.harvest_weeks - 1)
                ELSE p.planned_last_harvest_date
        yield == IF YieldUnset(p.planned_total_yield)
                 THEN p.planned_bedfeet * p.crop_season.total_yield_per_bedfoot
                 ELSE p.planned_total_yield
    IN [p EXCEPT !.planned_first_harvest_date = first,
                 !.planned_last_harvest_date = last,
                 !.planned_total_yield = yield]

NurseryEvent(id, event_type, planned_date) ==
    [planting |-> id, event_type |-> event_type, planned_date |-> planned_date]

GenerateNurseryEventsAlwaysTransplant(id, p) ==
    IF p.crop.nursery_weeks = 0 THEN <<>>
    ELSE LET seed_date == p.planned_plant_date - Weeks(p.crop.nursery_weeks)
         IN <<NurseryEvent(id, "seed", seed_date)>>
            \o (IF p.crop.weeks_until_pot_up # 0
                THEN <<NurseryEvent(id, "pot_up",
                                    seed_date + Weeks(p.crop.weeks_until_pot_up))>>
                ELSE <<>>)
            \o <<NurseryEvent(id, "transplant", p.planned_plant_date)>>

\* Planting.generate_nursery_events: the rows it creates, in order
GenerateNurseryEvents(id, p) ==
    IF p.crop.nursery_weeks = 0 THEN <<>>
    ELSE LET seed_date == p.planned_plant_date - Weeks(p.crop.nursery_weeks)
         IN <<NurseryEvent(id, "seed", seed_date)>>
            \o (IF p.crop.weeks_until_pot_up # 0
                THEN <<NurseryEvent(id, "pot_up",
                                    seed_date + Weeks(p.crop.weeks_until_pot_up)),
                       NurseryEvent(id, "transplant", p.planned_plant_date)>>
                ELSE <<>>)

\* The state of generate_harvest_events: which run it is for the planting,
\* the planned harvest dates of self, the loop variable, the sizes of the
\* event tables when the run began, and whether the planting was edited since
\* the run before
NoGeneration ==
    [state |-> "idle", planting |-> 0, run |-> 0, current |-> NoDate,
     first |-> NoDate, last |-> NoDate,
     nursery_before |-> 0, harvests_before |-> 0, edited |-> FALSE,
     rerun_unchanged |-> FALSE]

\* generate_nursery_events, then generate_harvest_events up to its loop
BeginGeneration(id, p, run, rerun_unchanged) ==
    /\ nursery' = nursery \o GenerateNurseryEvents(id, p)
    /\ gen' = [state |-> "loop", planting |-> id, run |-> run,
               current |-> p.planned_first_harvest_date,
               first |-> p.planned_first_harvest_date,
               last |-> p.planned_last_harvest_date,
               nursery_before |-> Len(nursery), harvests_before |-> Len(harvests),
               edited |-> FALSE, rerun_unchanged |-> rerun_unchanged]

\* PlantingCreateView.form_valid: the planting of the form, with the planning
\* year and the bed-feet the view gives it, before it is saved
NewPlanting(planning_year, crop, crop_season, block, plant_date, bedfeet) ==
    [planning_year |-> planning_year,
     crop |-> crop, crop_season |-> crop_season, block |-> block,
     planned_bedfeet |-> bedfeet,
     planned_plant_date |-> plant_date,
     planned_first_harvest_date |-> NoDate,
     planned_last_harvest_date |-> NoDate,
     planned_total_yield |-> NoQuantity,
     status |-> "planned", actual_first_harvest_date |-> NoDate,
     notes |-> <<>>]

\* PlantingCreateView.form_valid: Planting.save, generate_nursery_events, and
\* generate_harvest_events up to its loop
PlantingCreate(crop, crop_season, block, planned_plant_date, planned_bedfeet) ==
    /\ plantings = <<>>
    /\ gen.state = "idle"
    /\ FirstYear(years, {"planning", "active"}) # NoYear
    /\ LET p == PlantingSave(
                   NewPlanting(FirstYear(years, {"planning", "active"}), crop,
                               crop_season, block, planned_plant_date,
                               planned_bedfeet))
       IN /\ plantings' = <<p>>
          /\ BeginGeneration(1, p, 1, FALSE)
    /\ UNCHANGED <<salesVars, seasonVars, view, ledgerVars, today, concVars, harvests>>

HarvestLoopGuardStrict(current, last) == current < last

\* generate_harvest_events: the condition of the while loop
HarvestLoopGuard(current, last) == current <= last

\* generate_harvest_events: one pass of the loop body
HarvestLoopStep ==
    /\ gen.state = "loop"
    /\ HarvestLoopGuard(gen.current, gen.last)
    /\ harvests' = Append(harvests,
           [planting |-> gen.planting, planned_date |-> gen.current,
            actual_date |-> NoDate, actual_bins |-> NoQuantity,
            actual_quantity |-> NoQuantity])
    /\ gen' = [gen EXCEPT !.current = gen.current + Weeks(1)]
    /\ UNCHANGED <<salesVars, seasonVars, view, ledgerVars, today, concVars, plantings, nursery>>

\* generate_harvest_events: the loop condition fails and the method returns
HarvestLoopExit ==
    /\ gen.state = "loop"
    /\ ~HarvestLoopGuard(gen.current, gen.last)
    /\ gen' = [gen EXCEPT !.state = "done"]
    /\ UNCHANGED <<salesVars, seasonVars, view, ledgerVars, today, concVars, plantings, nursery, harvests>>

\* PlantingAdmin: the planned harvest dates of the planting are edited and the
\* planting saved (Planting.save leaves dates that are set alone)
AdminEditDates(first, last) ==
    /\ gen.state = "done"
    /\ gen.run < MaxRuns
    /\ plantings' = [plantings EXCEPT ![gen.planting] =
           PlantingSave([@ EXCEPT !.planned_first_harvest_date = first,
                                  !.planned_last_harvest_date = last])]
    /\ plantings' # plantings
    /\ gen' = [gen EXCEPT !.edited = TRUE]
    /\ UNCHANGED <<salesVars, seasonVars, view, ledgerVars, today, concVars, nursery, harvests>>

\* planned_plant_date an administrator may move a planting to
EditPlantDates == {30, 44}

\* PlantingAdmin: the change form is submitted with planned_plant_date and
\* planned_bedfeet as given and every other field as stored (the same values
\* as stored: a second save right after the first), and the planting saved
AdminEditPlan(planned_plant_date, planned_bedfeet) ==
    /\ gen.state = "done"
    /\ plantings' = [plantings EXCEPT ![gen.planting] =
           PlantingSave([@ EXCEPT !.planned_plant_date = planned_plant_date,
                                  !.planned_bedfeet = planned_bedfeet])]
    /\ UNCHANGED <<salesVars, seasonVars, view, ledgerVars, today, concVars, nursery, harvests, gen>>

\* generate_nursery_events and generate_harvest_events run again for the
\* planting
Regenerate ==
    /\ gen.state = "done"
    /\ gen.run < MaxRuns
    /\ BeginGeneration(gen.planting, plantings[gen.planting], gen.run + 1, ~gen.edited)
    /\ UNCHANGED <<salesVars, seasonVars, view, ledgerVars, today, concVars, plantings, harvests>>

\* HarvestEvent.record_bins
RecordBins(he, crop, bin_count, day) ==
    [he EXCEPT !.actual_bins = bin_count,
               !.actual_quantity = IF crop.units_per_bin # 0
                                   THEN bin_count * crop.units_per_bin
                                   ELSE he.actual_quantity,
               !.actual_date = day]

\* WeeklyHarvestEntryView.post for a submission of one bins_<id> field with a
\* number in it: record_bins on the event when its planting is of the active
\* year, then the status of its planting (of whatever year) and Planting.save
HarvestEntryPost(id, bin_count) ==
    /\ gen.state = "done"
    /\ id \in 1..Len(harvests)
    /\ LET he == harvests[id]
           p == plantings[he.planting]
           year_obj == FirstYear(years, {"active"})
       IN /\ harvests' =
                 IF p.planning_year = year_obj
                 THEN [harvests EXCEPT ![id] = RecordBins(he, p.crop, bin_count, today)]
                 ELSE harvests
          /\ plantings' =
                 IF p.status \in {"planted", "growing"}
                 THEN [plantings EXCEPT ![he.planting] =
                          PlantingSave(
                              [p EXCEPT !.status = "harvesting",
                                        !.actual_first_harvest_date =
                                            IF p.actual_first_harvest_date = NoDate
                                            THEN today ELSE @])]
                 ELSE plantings
    /\ UNCHANGED <<salesVars, seasonVars, view, ledgerVars, today, concVars, nursery, gen>>

\* WeeklyHarvestEntryView.post for a submission of one bins_<id> field with a
\* value that float() rejects: the first loop catches the ValueError and
\* records nothing, the second loop sets the status of the planting of the
\* event all the same
HarvestEntryPostUnparsed(id) ==
    /\ gen.state = "done"
    /\ id \in 1..Len(harvests)
    /\ LET he == harvests[id]
           p == plantings[he.planting]
       IN plantings' =
              IF p.status \in {"planted", "growing"}
              THEN [plantings EXCEPT ![he.planting] =
                       PlantingSave(
                           [p EXCEPT !.status = "harvesting",
                                     !.actual_first_harvest_date =
                                         IF p.actual_first_harvest_date = NoDate
                                         THEN today ELSE @])]
              ELSE plantings
    /\ UNCHANGED <<salesVars, seasonVars, view, ledgerVars, today, concVars,
                   nursery, harvests, gen>>

\* bin counts entered in the harvest entry form
BinCounts == {1, 3}

-----------------------------------------------------------------------------
(* Planning years, rotation rules and rotation history *)

MaxGap == 3
MaxHistory == 2

\* RotationHistory.year of the rows
RotationYears == 2022..2025

\* rules[family] when no RotationRule row has the family
NoRule == 0 - 1

RuleSets == [Families -> {NoRule} \cup 1..MaxGap]

HistoryRow(block, year, botanical_family) ==
    [block |-> block, year |-> year, botanical_family |-> botanical_family]

\* RotationHistory tables: unique_together (block, year)
HistorySets ==
    {h \in SUBSET {HistoryRow(b, y, f) : b \in Blocks, y \in RotationYears, f \in Families} :
        /\ Cardinality(h) <= MaxHistory
        /\ \A r1, r2 \in h : (r1.block = r2.block /\ r1.year = r2.year) => r1 = r2}

\* What a rotation check puts in the context: whether it flags the planting,
\* and the required gap and the last-seen year it reports (NoRule, NoYear when
\* it reports none)
RotationResult(warning, min_gap, last_year) ==
    [warning |-> warning, min_gap |-> min_gap, last_year |-> last_year]

RotationOk == RotationResult(FALSE, NoRule, NoYear)

\* ClonePlanUIView.get_context_data, the rotation check of one planting of the
\* source year: the entry appended to violations has the family and min_gap
ClonePlanRotationCheck(hist, rls, block, family, source_year) ==
    IF family = NoFamily \/ rls[family] = NoRule THEN RotationOk
    ELSE LET recent == \E r \in hist :
                           /\ r.block = block
                           /\ r.botanical_family = family
                           /\ r.year >= source_year + 1 - rls[family]
                           /\ r.year < source_year + 1
         IN IF recent THEN RotationResult(TRUE, rls[family], NoYear) ELSE RotationOk

\* PlantingDetailView.get_context_data, "Rotation check": the entry of the
\* block and family of the greatest year, whatever the year
PlantingDetailRotationCheck(hist, rls, block, family, year) ==
    LET entries == {r \in hist : r.block = block /\ r.botanical_family = family}
    IN IF family = NoFamily \/ rls[family] = NoRule \/ entries = {} THEN RotationOk
       ELSE LET last == CHOOSE r \in entries : \A q \in entries : q.year <= r.year
                gap == year - last.year
            IN RotationResult(gap < rls[family], rls[family], last.year)

NoView == [name |-> "none"]

\* ClonePlanUIView is asked for the preview of a source year with a planting
\* of the block and the family in it
ClonePlanPreview(block, family, source_year) ==
    /\ view' = [name |-> "clone_plan", block |-> block, family |-> family,
                year |-> source_year + 1,
                result |-> ClonePlanRotationCheck(history, rules, block, family,
                                                  source_year)]
    /\ UNCHANGED <<ledgerVars, today, concVars, eventVars, seasonVars, salesVars>>

\* PlantingDetailView is asked for a planting of the block, the family and the
\* planning year
PlantingDetail(block, family, year) ==
    /\ view' = [name |-> "planting_detail", block |-> block, family |-> family,
                year |-> year,
                result |-> PlantingDetailRotationCheck(history, rules, block, family,
                                                       year)]
    /\ UNCHANGED <<ledgerVars, today, concVars, eventVars, seasonVars, salesVars>>

-----------------------------------------------------------------------------
(* Field walk notes and the completion of a season *)

MaxNotes == 1

\* PlantingStatus
Statuses ==
    {"planned", "seeded", "planted", "growing", "harvesting", "complete",
     "failed", "skipped", "revised"}

\* FieldWalkNote.CONDITION_CHOICES
Conditions == {"good", "fair", "poor", "failed"}

\* FieldWalkView.post for a submission of one condition_<id> field with a
\* condition in it, no yield_<id> and no adj_harvest_<id>: a planting that is
\* not of the active year is passed over
FieldWalkPost(id, condition) ==
    /\ id \in 1..Len(plantings)
    /\ Len(walk_notes) < MaxNotes
    /\ IF plantings[id].planning_year = FirstYear(years, {"active"})
       THEN /\ walk_notes' = Append(walk_notes,
                   [planting |-> id, walk_date |-> today, condition |-> condition,
                    yield_adjust_pct |-> 100, adjusted_first_harvest_date |-> NoDate])
            /\ plantings' =
                   IF condition = "failed"
                   THEN [plantings EXCEPT ![id] =
                            PlantingSave([@ EXCEPT !.status = "failed",
                                                   !.notes = Append(@, today)])]
                   ELSE plantings
       ELSE UNCHANGED <<walk_notes, plantings>>
    /\ UNCHANGED <<salesVars, ledgerVars, today, concVars, nursery, harvests, gen,
                   years, history, rules, view>>

\* block__name in an ordering: the blocks in the order of their names
BlockOrder == <<"A", "B">>
BlockRank(block) == CHOOSE i \in 1..Len(BlockOrder) : BlockOrder[i] = block

\* The orders in which a queryset of plantings may come: Planting.Meta.ordering
\* is (planned_plant_date, block__name), and rows that are equal in both come
\* in an order the database chooses
PlantingOrders(ps, ids) ==
    {order \in [1..Cardinality(ids) -> ids] :
        /\ \A i, j \in DOMAIN order : i # j => order[i] # order[j]
        /\ \A i, j \in DOMAIN order : i < j =>
               \/ ps[order[i]].planned_plant_date < ps[order[j]].planned_plant_date
               \/ /\ ps[order[i]].planned_plant_date = ps[order[j]].planned_plant_date
                  /\ BlockRank(ps[order[i]].block) <= BlockRank(ps[order[j]].block)}

\* RotationHistory.objects.update_or_create(block=, year=, defaults=): the row
\* of the block and the year is created, or its family overwritten
UpdateOrCreate(hist, block, year, botanical_family) ==
    {r \in hist : ~(r.block = block /\ r.year = year)}
        \cup {HistoryRow(block, year, botanical_family)}

\* CompleteSeasonView.post, the loop over completed from the row at position
\* i on: the history and rotation_updated it ends with
RECURSIVE RecordRotation(_, _, _, _, _, _, _)
RecordRotation(ps, order, i, year, hist, seen, rotation_updated) ==
    IF i > Len(order) THEN [history |-> hist, rotation_updated |-> rotation_updated]
    ELSE LET p == ps[order[i]]
             family == p.crop.botanical_family
             key == <<p.block, family>>
         IN IF family = NoFamily \/ key \in seen
            THEN RecordRotation(ps, order, i + 1, year, hist, seen, rotation_updated)
            ELSE RecordRotation(ps, order, i + 1, year,
                                UpdateOrCreate(hist, p.block, year, family),
                                seen \cup {key}, rotation_updated + 1)

\* CompleteSeasonView.post: status__in of completed
CompletedStatuses == {"complete", "harvesting"}

StillActiveStatusesNoHarvesting == {"planted", "growing"}

\* CompleteSeasonView.post: status__in of still_active
StillActiveStatuses == {"planted", "growing", "harvesting"}

\* CompleteSeasonView.post
CompleteSeason ==
    LET year_obj == FirstYear(years, {"active"})
        completed == {id \in 1..Len(plantings) :
                         /\ plantings[id].planning_year = year_obj
                         /\ plantings[id].status \in CompletedStatuses}
    IN /\ IF year_obj = NoYear
          THEN /\ view' = [name |-> "complete_season", year |-> NoYear,
                           order |-> <<>>, rotation_updated |-> 0]
               /\ UNCHANGED <<plantings, years, history>>
          ELSE /\ \E order \in PlantingOrders(plantings, completed) :
                      LET done == RecordRotation(plantings, order, 1, year_obj,
                                                 history, {}, 0)
                      IN /\ history' = done.history
                         /\ view' = [name |-> "complete_season", year |-> year_obj,
                                     order |-> order,
                                     rotation_updated |-> done.rotation_updated]
               /\ plantings' =
                      [id \in 1..Len(plantings) |->
                          IF /\ plantings[id].planning_year = year_obj
                             /\ plantings[id].status \in StillActiveStatuses
                          THEN [plantings[id] EXCEPT !.status = "complete"]
                          ELSE plantings[id]]
               /\ years' = [years EXCEPT ![year_obj] = "complete"]
       /\ UNCHANGED <<salesVars, ledgerVars, today, concVars, nursery, harvests,
                      gen, rules, walk_notes>>

-----------------------------------------------------------------------------
(* The seed order report.  A quantity of seed is a whole number of         *)
(* hundredths of an ounce.                                                 *)

MaxHundredths == 1700

\* math.ceil(n / d) for d > 0
CeilDiv(n, d) == (n + d - 1) \div d

\* The label _round_order returns: amount (a fraction) and unit, and whether
\* the figure in pounds is shown beside it
OrderSize(numerator, denominator, unit, pounds_shown) ==
    [numerator |-> numerator, denominator |-> denominator, unit |-> unit,
     pounds_shown |-> pounds_shown]

\* the label "?"
OrderUnknown == OrderSize(0, 1, "?", FALSE)

RoundOrderQuarterInclusive(ounces) ==
    IF ounces = NoQuantity THEN OrderUnknown
    ELSE IF ounces < 10 THEN OrderSize(1, 1, "pkt", FALSE)
    ELSE IF ounces <= 25 THEN OrderSize(1, 4, "oz", FALSE)
    ELSE IF ounces < 50 THEN OrderSize(1, 2, "oz", FALSE)
    ELSE IF ounces < 100 THEN OrderSize(1, 1, "oz", FALSE)
    ELSE IF ounces < 400 THEN OrderSize(CeilDiv(ounces, 100), 1, "oz", FALSE)
    ELSE IF ounces < 1600 THEN OrderSize(CeilDiv(ounces, 100), 1, "oz", TRUE)
    ELSE OrderSize(CeilDiv(ounces, 1600), 1, "lb", FALSE)

\* SeedOrderReportView._round_order (lbs = ounces / 16, and lbs < 1 is
\* ounces < 16)
RoundOrder(ounces) ==
    IF ounces = NoQuantity THEN OrderUnknown
    ELSE IF ounces < 10 THEN OrderSize(1, 1, "pkt", FALSE)
    ELSE IF ounces < 25 THEN OrderSize(1, 4, "oz", FALSE)
    ELSE IF ounces < 50 THEN OrderSize(1, 2, "oz", FALSE)
    ELSE IF ounces < 100 THEN OrderSize(1, 1, "oz", FALSE)
    ELSE IF ounces < 400 THEN OrderSize(CeilDiv(ounces, 100), 1, "oz", FALSE)
    ELSE IF ounces < 1600 THEN OrderSize(CeilDiv(ounces, 100), 1, "oz", TRUE)
    ELSE OrderSize(CeilDiv(ounces, 1600), 1, "lb", FALSE)

\* _round_order is called with a need in ounces (or None)
RoundOrderCall(ounces) ==
    /\ view' = [name |-> "round_order", ounces |-> ounces,
                result |-> RoundOrder(ounces)]
    /\ UNCHANGED <<ledgerVars, today, concVars, eventVars, seasonVars, salesVars>>

\* PlanningYear.overplant_factor (the default, 1.10), in hundredths
OverplantFactor == 110

\* SeedOrderReportView.get_context_data: the plantings of the report
ReportPlantings(ps, year) ==
    {id \in 1..Len(ps) : ps[id].planning_year = year /\ ps[id].status # "skipped"}

TotalBedfeetOfOne(ps, ids) ==
    IF ids = {} THEN 0 ELSE ps[CHOOSE id \in ids : TRUE].planned_bedfeet

\* crop_needs[crop_id]["total_bedfeet"] += p.planned_bedfeet, over the
\* plantings of a crop
RECURSIVE TotalBedfeet(_, _)
TotalBedfeet(ps, ids) ==
    IF ids = {} THEN 0
    ELSE LET id == CHOOSE id \in ids : TRUE
         IN ps[id].planned_bedfeet + TotalBedfeet(ps, ids \ {id})

\* _calculate_seeds for a crop of propagation_type "seed" and a profile with
\* no tp_inrow_spacing: _calc_direct_seed, or the result of method "unknown".
\* seeds is in hundredths of a seed, and int(seeds) drops them.
CalculateSeeds(crop, cs, total_bf, overplant) ==
    IF cs.ds_seed_rate # 0
    THEN LET rows == IF cs.rows_per_bed # 0 THEN cs.rows_per_bed ELSE 1
             seeds == total_bf * rows * cs.ds_seed_rate * overplant
             ounces == IF crop.seeds_per_ounce > 0
                       THEN seeds \div crop.seeds_per_ounce
                       ELSE NoQuantity
         IN [method |-> "direct_seed", seeds_needed |-> seeds \div 100,
             ounces_needed |-> ounces,
             order_rounded |-> IF crop.seeds_per_ounce > 0
                               THEN RoundOrder(ounces) ELSE OrderUnknown]
    ELSE [method |-> "unknown", seeds_needed |-> 0, ounces_needed |-> 0,
          order_rounded |-> OrderUnknown]

\* SeedOrderReportView.get_context_data for the plantings in the order the
\* queryset gives them: seed_orders, as the set of its entries (the sort of
\* the list arranges them by method and crop name)
SeedOrders(ps, order, overplant) ==
    LET OfCrop(crop) == {i \in 1..Len(order) : ps[order[i]].crop = crop}
        First(crop) == order[CHOOSE i \in OfCrop(crop) : \A j \in OfCrop(crop) : i <= j]
    IN {LET ids == {order[i] : i \in OfCrop(crop)}
            total_bf == TotalBedfeet(ps, ids)
            result == CalculateSeeds(crop, ps[First(crop)].crop_season, total_bf,
                                     overplant)
        IN [crop |-> crop, total_bedfeet |-> total_bf,
            num_plantings |-> Cardinality(ids), method |-> result.method,
            seeds_needed |-> result.seeds_needed,
            ounces_needed |-> result.ounces_needed,
            order_rounded |-> result.order_rounded] :
          crop \in {ps[order[i]].crop : i \in 1..Len(order)}}

\* SeedOrderReportView.get_context_data
SeedOrderReport ==
    LET year_obj == FirstYear(years, {"planning", "active"})
    IN /\ year_obj # NoYear
       /\ \E order \in PlantingOrders(plantings, ReportPlantings(plantings, year_obj)) :
              view' = [name |-> "seed_order", year |-> year_obj, order |-> order,
                       seed_orders |-> SeedOrders(plantings, order, OverplantFactor)]
       /\ UNCHANGED <<ledgerVars, today, concVars, eventVars, seasonVars, salesVars>>

-----------------------------------------------------------------------------
(* The planning matrix *)

MaxWeek == 53

\* date.isocalendar()[1]: day 1 is Monday 1 January 2024, the first day of ISO
\* week 1 of 2024, and the ISO years 2023, 2024 and 2025 have 52 weeks each, so
\* over the days of these years the week numbers repeat every 364 days
IsoWeek(day) == (((day - 1) \div 7) % 52) + 1

\* Week(year, w).monday() and Week(year, w).sunday() of the isoweek package,
\* for the ISO years 2024 and 2025
WeekMonday(year, w) == (year - 2024) * 364 + 7 * (w - 1) + 1
WeekSunday(year, w) == (year - 2024) * 364 + 7 * w

Max2(a, b) == IF a >= b THEN a ELSE b
Min2(a, b) == IF a <= b THEN a ELSE b

MatrixWindowThreeBefore(center_week) ==
    LET week_start == Max2(1, center_week - 3)
    IN [week_start |-> week_start, week_end |-> Min2(52, week_start + 15)]

\* PlanningMatrixView.get_context_data: "Show 16-week window"
MatrixWindow(center_week) ==
    LET week_start == Max2(1, center_week - 4)
    IN [week_start |-> week_start, week_end |-> Min2(52, week_start + 15)]

\* PlanningMatrixView.get_context_data, the queryset "plantings": the
\* plantings of the year shown, the skipped ones excluded, whose planned dates
\* overlap the dates of the window
MatrixQueryWithSkipped(ps, year, week_start, week_end) ==
    {id \in DOMAIN ps :
        /\ ps[id].planning_year = year
        /\ ps[id].planned_plant_date <= WeekSunday(year, week_end)
        /\ ps[id].planned_last_harvest_date >= WeekMonday(year, week_start)}

MatrixQuery(ps, year, week_start, week_end) ==
    {id \in DOMAIN ps :
        /\ ps[id].planning_year = year
        /\ ps[id].status # "skipped"
        /\ ps[id].planned_plant_date <= WeekSunday(year, week_end)
        /\ ps[id].planned_last_harvest_date >= WeekMonday(year, week_start)}

\* The orders in which that queryset may come: order_by("block__name",
\* "bed_start", "planned_plant_date"); the bed range of a planting is not part
\* of the model, so the plantings of one block come in any order
MatrixOrders(ps, ids) ==
    {order \in [1..Cardinality(ids) -> ids] :
        /\ \A i, j \in DOMAIN order : i # j => order[i] # order[j]
        /\ \A i, j \in DOMAIN order : i < j =>
               BlockRank(ps[order[i]].block) <= BlockRank(ps[order[j]].block)}

\* PlanningMatrixView._status_css
StatusCss(p, current_week) ==
    LET plant_wk == IsoWeek(p.planned_plant_date)
        harvest_start == IsoWeek(p.planned_first_harvest_date)
        harvest_end == IsoWeek(p.planned_last_harvest_date)
    IN IF p.status = "failed" THEN "planting-failed"
       ELSE IF p.status = "revised" THEN "planting-revised"
       ELSE IF p.status = "complete" THEN "planting-complete"
       ELSE IF current_week > harvest_end THEN "planting-past"
       ELSE IF current_week >= harvest_start THEN "planting-harvesting"
       ELSE IF current_week >= plant_wk THEN "planting-growing"
       ELSE "planting-planned"

SegmentVisibleAlways(first_visible, last_visible) == TRUE

\* PlanningMatrixView._build_matrix: "if last_visible < first_visible:
\* continue", negated
SegmentVisible(first_visible, last_visible) == ~(last_visible < first_visible)

\* PlanningMatrixView._build_matrix, the body of its inner loop: the rows of a
\* block after the planting id, rows being those before it
MatrixRow(ps, id, week_start, week_end, current_week, rows) ==
    LET p == ps[id]
        plant_week == IsoWeek(p.planned_plant_date)
        harvest_start == IsoWeek(p.planned_first_harvest_date)
        harvest_end == IsoWeek(p.planned_last_harvest_date)
        first_visible == Max2(week_start, plant_week)
        last_visible == Min2(week_end, harvest_end)
    IN IF ~SegmentVisible(first_visible, last_visible) THEN rows
       ELSE Append(rows,
                   [planting |-> id,
                    col_start |-> first_visible - week_start,
                    col_span |-> last_visible - first_visible + 1,
                    plant_week |-> plant_week,
                    harvest_start |-> harvest_start,
                    harvest_end |-> harvest_end,
                    status |-> p.status,
                    css_class |-> StatusCss(p, current_week)])

\* PlanningMatrixView._build_matrix, its inner loop over the plantings of one
\* block, from position i of the queryset on
RECURSIVE BlockRows(_, _, _, _, _, _, _, _)
BlockRows(ps, order, i, block, week_start, week_end, current_week, rows) ==
    IF i > Len(order) THEN rows
    ELSE BlockRows(ps, order, i + 1, block, week_start, week_end, current_week,
                   IF ps[order[i]].block = block
                   THEN MatrixRow(ps, order[i], week_start, week_end,
                                  current_week, rows)
                   ELSE rows)

\* PlanningMatrixView._build_matrix: block -> the rows of its plantings
BuildMatrix(ps, order, week_start, week_end, current_week) ==
    [block \in Blocks |->
        BlockRows(ps, order, 1, block, week_start, week_end, current_week, <<>>)]

\* PlanningMatrixView.get_context_data asked for a week (0: no week in the
\* URL, and the week of today is the center, today being a day of 2024): the
\* center, the window and the matrix of the context
PlanningMatrix(requested_week) ==
    LET year == FirstYear(years, {"planning", "active"})
        center_week == IF requested_week # 0 THEN requested_week
                       ELSE IF year = 2024 THEN IsoWeek(today) ELSE 1
        window == MatrixWindow(center_week)
        ids == MatrixQuery(plantings, year, window.week_start, window.week_end)
    IN /\ IF year = NoYear
          THEN view' = [name |-> "matrix", no_year |-> TRUE]
          ELSE \E order \in MatrixOrders(plantings, ids) :
                   view' = [name |-> "matrix", no_year |-> FALSE,
                            year |-> year,
                            center_week |-> center_week,
                            week_start |-> window.week_start,
                            week_end |-> window.week_end,
                            matrix |-> BuildMatrix(plantings, order,
                                                   window.week_start,
                                                   window.week_end,
                                                   IsoWeek(today))]
       /\ UNCHANGED <<ledgerVars, today, concVars, eventVars, seasonVars, salesVars>>

\* week_nums[k] of Python, k counted from 0: a k outside the list (a negative
\* one included) is marked
NoWeek == 0
WeekAt(week_nums, k) ==
    IF 0 <= k /\ k < Len(week_nums) THEN week_nums[k + 1] ELSE NoWeek

\* render_planting_bar: the cells of a matrix row, in order: one fallow cell
\* for each of the col_start weeks before the planting, the bar with its
\* colspan, and one fallow cell for each of the remaining weeks
RenderPlantingBar(row, week_nums) ==
    LET col_start == row.col_start
        col_span == row.col_span
        remaining == Len(week_nums) - col_start - col_span
        before == [i \in 1..col_start |->
                      [class |-> "fallow", colspan |-> 1,
                       week |-> WeekAt(week_nums, i - 1)]]
        bar == [class |-> row.css_class, colspan |-> col_span, week |-> NoWeek]
        after == [i \in 1..remaining |->
                     [class |-> "fallow", colspan |-> 1,
                      week |-> WeekAt(week_nums, col_start + col_span + i - 1)]]
    IN before \o <<bar>> \o after

\* The template tag render_planting_bar called with a row of the matrix shown
\* and the weeks of its window
PlantingBar(block, i) ==
    /\ view.name = "matrix"
    /\ ~view.no_year
    /\ i \in DOMAIN view.matrix[block]
    /\ LET week_nums == [k \in 1..(view.week_end - view.week_start + 1) |->
                            view.week_start + k - 1]
       IN view' = [name |-> "planting_bar", row |-> view.matrix[block][i],
                   week_nums |-> week_nums,
                   cells |-> RenderPlantingBar(view.matrix[block][i], week_nums)]
    /\ UNCHANGED <<ledgerVars, today, concVars, eventVars, seasonVars, salesVars>>

-----------------------------------------------------------------------------
(* The revenue projection *)

\* The module of RevenueProjectionView imports neither SalesChannel,
\* CropSalesFormat nor Decimal; the names are read here as
\* reference.models.SalesChannel, reference.models.CropSalesFormat and
\* decimal.Decimal.

MaxChannels == 2

\* SalesChannel.num_weeks
NumWeeks(ch) ==
    IF ch.end_week >= ch.start_week THEN ch.end_week - ch.start_week + 1
    ELSE (52 - ch.start_week + 1) + ch.end_week

\* SalesChannel.annual_target
AnnualTarget(ch) == ch.weekly_target * NumWeeks(ch)

NoFormat == 0

\* RevenueProjectionView.get_context_data, crop_formats[crop]: the first, in
\* the order of the queryset, of the active formats of the crop with the
\* highest price (a later format replaces the one kept only when its price is
\* strictly higher)
CropFormat(fmts, crop) ==
    LET active == {i \in DOMAIN fmts : fmts[i].is_active /\ fmts[i].crop = crop}
        best == {i \in active : \A j \in active : fmts[j].sale_price <= fmts[i].sale_price}
    IN IF active = {} THEN NoFormat
       ELSE CHOOSE i \in best : \A j \in best : i <= j

\* RevenueProjectionView.get_context_data, the queryset harvest_events
RevenueEvents(ps, hs, year_obj) ==
    {i \in DOMAIN hs :
        /\ ps[hs[i].planting].planning_year = year_obj
        /\ ps[hs[i].planting].status \notin {"skipped", "failed", "revised"}}

\* "he.actual_quantity or he.planned_quantity or 0": None and 0 are both
\* false
SupplyQuantity(he) ==
    IF he.actual_quantity # NoQuantity /\ he.actual_quantity # 0
    THEN he.actual_quantity
    ELSE IF he.planned_quantity # 0 THEN he.planned_quantity
    ELSE 0

RECURSIVE SumSupply(_, _)
SumSupply(hs, events) ==
    IF events = {} THEN 0
    ELSE LET i == CHOOSE i \in events : TRUE
         IN SupplyQuantity(hs[i]) + SumSupply(hs, events \ {i})

\* RevenueProjectionView.get_context_data, weekly_supply: week -> crop ->
\* quantity, with keys for the weeks and crops that have events
WeeklySupply(ps, hs, events) ==
    [wk \in {IsoWeek(hs[i].planned_date) : i \in events} |->
        LET of_week == {i \in events : IsoWeek(hs[i].planned_date) = wk}
        IN [crop \in {ps[hs[i].planting].crop.name : i \in of_week} |->
               SumSupply(hs, {i \in of_week : ps[hs[i].planting].crop.name = crop})]]

\* weekly_supply.get(wk, {})
SupplyOf(weekly_supply, wk) ==
    IF wk \in DOMAIN weekly_supply THEN weekly_supply[wk] ELSE <<>>

\* revenue = Decimal(str(qty)) / fmt.harvest_qty_per_sale_unit * fmt.sale_price
\* (the quantities and prices of the model make the division exact)
RECURSIVE WeekRevenue(_, _, _)
WeekRevenue(supply, crops, fmts) ==
    IF crops = {} THEN 0
    ELSE LET crop_id == CHOOSE c \in crops : TRUE
             fmt == CropFormat(fmts, crop_id)
             revenue == IF fmt = NoFormat THEN 0
                        ELSE (supply[crop_id] * fmts[fmt].sale_price)
                                 \div fmts[fmt].harvest_qty_per_sale_unit
         IN revenue + WeekRevenue(supply, crops \ {crop_id}, fmts)

\* "if ch.start_week <= wk <= ch.end_week"
ChannelActive(ch, wk) == ch.start_week <= wk /\ wk <= ch.end_week

\* RevenueProjectionView.get_context_data, week_target: the loop over the
\* channels, from channel i on
RECURSIVE WeekTarget(_, _, _)
WeekTarget(chs, i, wk) ==
    IF i > Len(chs) THEN 0
    ELSE (IF ChannelActive(chs[i], wk) THEN chs[i].weekly_target ELSE 0)
             + WeekTarget(chs, i + 1, wk)

\* sum(ch.annual_target for ch in channels), from channel i on
RECURSIVE SumAnnualTargets(_, _)
SumAnnualTargets(chs, i) ==
    IF i > Len(chs) THEN 0
    ELSE AnnualTarget(chs[i]) + SumAnnualTargets(chs, i + 1)

\* annual_projected: the week_revenue of the weeks wk..52, added up
RECURSIVE SumRevenue(_, _)
SumRevenue(weekly, wk) ==
    IF wk > 52 THEN 0
    ELSE weekly[wk].projected_revenue + SumRevenue(weekly, wk + 1)

\* RevenueProjectionView.get_context_data
RevenueProjection ==
    LET year_obj == FirstYear(years, {"planning", "active"})
        events == RevenueEvents(plantings, harvests, year_obj)
        weekly_supply == WeeklySupply(plantings, harvests, events)
        weekly == [wk \in 1..52 |->
                      LET supply == SupplyOf(weekly_supply, wk)
                          week_revenue == WeekRevenue(supply, DOMAIN supply, formats)
                          week_target == WeekTarget(channels, 1, wk)
                      IN [week |-> wk,
                          projected_revenue |-> week_revenue,
                          target |-> week_target,
                          gap |-> week_revenue - week_target]]
        annual_projected == SumRevenue(weekly, 1)
        annual_target == SumAnnualTargets(channels, 1)
    IN /\ view' = IF year_obj = NoYear
                  THEN [name |-> "revenue_projection", error |-> "AttributeError"]
                  ELSE [name |-> "revenue_projection", error |-> "",
                        year |-> year_obj,
                        weekly_supply |-> weekly_supply,
                        weekly |-> weekly,
                        annual_projected |-> annual_projected,
                        annual_target |-> annual_target,
                        annual_gap |-> annual_projected - annual_target,
                        gap_weeks |-> Cardinality({wk \in 1..52 : weekly[wk].gap < 0}),
                        surplus_weeks |-> Cardinality({wk \in 1..52 : weekly[wk].gap > 0})]
       /\ UNCHANGED <<salesVars, ledgerVars, today, concVars, eventVars, seasonVars>>

\* DashboardView.get_context_data, "Week target": the sum of weekly_target
\* over SalesChannel.objects.filter(start_week__lte=current_week,
\* end_week__gte=current_week), or 0
DashboardWeekTarget ==
    LET current_week == IsoWeek(today)
    IN /\ view' = [name |-> "dashboard", current_week |-> current_week,
                   week_target |-> WeekTarget(channels, 1, current_week)]
       /\ UNCHANGED <<salesVars, ledgerVars, today, concVars, eventVars, seasonVars>>

-----------------------------------------------------------------------------

Init ==
    /\ ledger = <<>>
    /\ calls = <<>>
    /\ today = 1
    /\ pc = [r \in Requests |-> "idle"]
    /\ req = [r \in Requests |-> NoRequest]
    /\ plantings = <<>>
    /\ nursery = <<>>
    /\ harvests = <<>>
    /\ gen = NoGeneration
    /\ years = [y \in PlanningYears |-> IF y = 2024 THEN "active" ELSE "planning"]
    /\ history = {}
    /\ rules = [f \in Families |-> NoRule]
    /\ walk_notes = <<>>
    /\ channels = <<>>
    /\ formats = <<>>
    /\ view = NoView

Next ==
    \/ \E crop \in Crops, event_type \in FormEventTypes, raw_qty \in RawQuantities :
           FormValid(crop, event_type, raw_qty)
    \/ \E crop \in Crops, event_date \in Days, event_type \in SaveEventTypes,
          quantity \in SaveQuantities :
           LedgerSave(crop, event_date, event_type, quantity)
    \/ Tick

Spec == Init /\ [][Next]_vars

NextConc ==
    \/ \E r \in Requests, crop \in Crops, event_type \in FormEventTypes,
          raw_qty \in RawQuantities :
           ConcBegin(r, crop, event_type, raw_qty)
    \/ \E r \in Requests : ConcLookup(r)
    \/ \E r \in Requests : ConcCreate(r)
    \/ \E r \in Requests : ConcInsert(r)

SpecConc == Init /\ [][NextConc]_vars

\* The generator does not read the name or the bin conversion of the crop
GeneratorCrops ==
    {c \in CropInfos : /\ c.name = "carrot"
                       /\ c.botanical_family = "Brassicaceae"
                       /\ c.units_per_bin = 2
                       /\ c.seeds_per_ounce = 100}

\* The dates of the events do not depend on the yield and the seeding of the
\* crop profile or on the bed-feet of the planting
GeneratorSeasons ==
    {s \in CropSeasons : /\ s.total_yield_per_bedfoot = 2
                         /\ s.rows_per_bed = 2
                         /\ s.ds_seed_rate = 2}
GeneratorBedfeet == {b \in Bedfeet : b > 0}
GeneratorBlocks == {"A"}

NextEvents ==
    \/ \E crop \in GeneratorCrops, crop_season \in GeneratorSeasons, block \in GeneratorBlocks,
          planned_plant_date \in PlantDates, planned_bedfeet \in GeneratorBedfeet :
           PlantingCreate(crop, crop_season, block, planned_plant_date, planned_bedfeet)
    \/ HarvestLoopStep
    \/ HarvestLoopExit
    \/ \E first \in PlantDates : \E last \in LastHarvestDates(first) :
           AdminEditDates(first, last)
    \/ Regenerate

SpecEvents == Init /\ [][NextEvents]_vars

\* The loop of generate_harvest_events runs in one request: it is not
\* suspended for ever
SpecEventsFair ==
    SpecEvents /\ WF_vars(HarvestLoopStep) /\ WF_vars(HarvestLoopExit)

\* Harvest recording does not read the nursery lead times of the crop
HarvestCrops ==
    {c \in CropInfos : /\ c.botanical_family = "Brassicaceae"
                       /\ c.nursery_weeks = 0
                       /\ c.weeks_until_pot_up = 0
                       /\ c.seeds_per_ounce = 100}

NextHarvest ==
    \/ \E crop \in HarvestCrops, crop_season \in GeneratorSeasons, block \in GeneratorBlocks,
          planned_plant_date \in PlantDates, planned_bedfeet \in GeneratorBedfeet :
           PlantingCreate(crop, crop_season, block, planned_plant_date, planned_bedfeet)
    \/ HarvestLoopStep
    \/ HarvestLoopExit
    \/ \E id \in 1..Len(harvests), bin_count \in BinCounts : HarvestEntryPost(id, bin_count)

SpecHarvest == Init /\ [][NextHarvest]_vars

\* The derivation of the planned fields does not read the crop, or the seeding
\* of the crop profile
PlanCrops == {c \in HarvestCrops : c.name = "carrot" /\ c.units_per_bin = 2}
PlanSeasons == {s \in CropSeasons : s.rows_per_bed = 2 /\ s.ds_seed_rate = 2}

NextPlanting ==
    \/ \E crop \in PlanCrops, crop_season \in PlanSeasons, block \in GeneratorBlocks,
          planned_plant_date \in PlantDates, planned_bedfeet \in Bedfeet :
           PlantingCreate(crop, crop_season, block, planned_plant_date, planned_bedfeet)
    \/ HarvestLoopStep
    \/ HarvestLoopExit
    \/ \E planned_plant_date \in EditPlantDates, planned_bedfeet \in Bedfeet :
           AdminEditPlan(planned_plant_date, planned_bedfeet)

SpecPlanting == Init /\ [][NextPlanting]_vars

\* The rotation checks read the rules and the history only: any rules, and
\* any history that past season completions and the administrator have left
InitRotation ==
    /\ ledger = <<>>
    /\ calls = <<>>
    /\ today = 1
    /\ pc = [r \in Requests |-> "idle"]
    /\ req = [r \in Requests |-> NoRequest]
    /\ plantings = <<>>
    /\ nursery = <<>>
    /\ harvests = <<>>
    /\ gen = NoGeneration
    /\ years = [y \in PlanningYears |-> IF y = 2024 THEN "active" ELSE "planning"]
    /\ history \in HistorySets
    /\ rules \in RuleSets
    /\ walk_notes = <<>>
    /\ channels = <<>>
    /\ formats = <<>>
    /\ view = NoView

NextRotation ==
    \/ \E block \in Blocks, family \in Families \cup {NoFamily},
          source_year \in PlanningYears :
           ClonePlanPreview(block, family, source_year)
    \/ \E block \in Blocks, family \in Families \cup {NoFamily},
          year \in PlanningYears :
           PlantingDetail(block, family, year)

SpecRotation == InitRotation /\ [][NextRotation]_vars

\* The crops of a season: a crop of each family and a crop of none (the name
\* of a crop is unique). Season completion and the field walk read the
\* family of the crop, not its nursery lead times
SeasonCrops ==
    {c \in CropInfos : /\ c.nursery_weeks = 0
                       /\ c.weeks_until_pot_up = 0
                       /\ c.units_per_bin = 2
                       /\ c.seeds_per_ounce = 100
                       /\ (c.name = "carrot") <=> (c.botanical_family = "Brassicaceae")}

SeasonSeasons ==
    {s \in GeneratorSeasons : s.dtm_days = 3 /\ s.harvest_weeks = 1}

\* Plantings in a season under way: created by PlantingCreateView, and then
\* taken to a status by the administrator (the transitions are driven from
\* outside)
SeasonPlantings ==
    {[PlantingSave(NewPlanting(y, c, s, b, d, f)) EXCEPT !.status = st] :
        y \in PlanningYears, c \in SeasonCrops, s \in SeasonSeasons, b \in Blocks,
        d \in PlantDates, f \in GeneratorBedfeet, st \in Statuses}

\* A season under way: two plantings with the harvest event generated for
\* each, the generator at rest, no history recorded yet
InitSeason ==
    /\ ledger = <<>>
    /\ calls = <<>>
    /\ today = 1
    /\ pc = [r \in Requests |-> "idle"]
    /\ req = [r \in Requests |-> NoRequest]
    /\ plantings \in {<<p, q>> : p \in SeasonPlantings, q \in SeasonPlantings}
    /\ \A i, j \in 1..Len(plantings) :
           plantings[i].crop.name = plantings[j].crop.name
               => plantings[i].crop = plantings[j].crop
    /\ nursery = <<>>
    /\ harvests = [i \in 1..Len(plantings) |->
                      [planting |-> i,
                       planned_date |-> plantings[i].planned_first_harvest_date,
                       actual_date |-> NoDate, actual_bins |-> NoQuantity,
                       actual_quantity |-> NoQuantity]]
    /\ gen = [NoGeneration EXCEPT !.state = "done"]
    /\ years = [y \in PlanningYears |-> IF y = 2024 THEN "active" ELSE "planning"]
    /\ history = {}
    /\ rules = [f \in Families |-> NoRule]
    /\ walk_notes = <<>>
    /\ channels = <<>>
    /\ formats = <<>>
    /\ view = NoView

\* conditions and bin counts entered during the season
SeasonConditions == {"good", "failed"}
SeasonBinCounts == {1}

NextSeason ==
    \/ CompleteSeason
    \/ \E id \in 1..Len(plantings), condition \in SeasonConditions :
           FieldWalkPost(id, condition)
    \/ \E id \in 1..Len(harvests), bin_count \in SeasonBinCounts :
           HarvestEntryPost(id, bin_count)
    \/ \E id \in 1..Len(harvests) : HarvestEntryPostUnparsed(id)

SpecSeason == InitSeason /\ [][NextSeason]_vars

\* The report reads the crop, the seeding of its profile, the bed-feet, the
\* year and the status of a planting
ReportCrops == {c \in SeasonCrops : c.botanical_family # NoFamily}

ReportSeasons ==
    {s \in CropSeasons : /\ s.dtm_days = 3
                         /\ s.harvest_weeks = 1
                         /\ s.total_yield_per_bedfoot = 2}

ReportStatuses == {"planned", "failed", "skipped"}

ReportPlantingRows ==
    {[PlantingSave(NewPlanting(y, c, s, b, d, f)) EXCEPT !.status = st] :
        y \in PlanningYears, c \in ReportCrops, s \in ReportSeasons, b \in Blocks,
        d \in PlantDates, f \in Bedfeet, st \in ReportStatuses}

\* A plan of two plantings
InitReport ==
    /\ ledger = <<>>
    /\ calls = <<>>
    /\ today = 1
    /\ pc = [r \in Requests |-> "idle"]
    /\ req = [r \in Requests |-> NoRequest]
    /\ plantings \in {<<p, q>> : p \in ReportPlantingRows, q \in ReportPlantingRows}
    /\ nursery = <<>>
    /\ harvests = [i \in 1..Len(plantings) |->
                      [planting |-> i,
                       planned_date |-> plantings[i].planned_first_harvest_date,
                       actual_date |-> NoDate, actual_bins |-> NoQuantity,
                       actual_quantity |-> NoQuantity]]
    /\ gen = [NoGeneration EXCEPT !.state = "done"]
    /\ years = [y \in PlanningYears |-> IF y = 2024 THEN "active" ELSE "planning"]
    /\ history = {}
    /\ rules = [f \in Families |-> NoRule]
    /\ walk_notes = <<>>
    /\ channels = <<>>
    /\ formats = <<>>
    /\ view = NoView

NextReport == SeedOrderReport

SpecReport == InitReport /\ [][NextReport]_vars

NextMatrix ==
    \/ \E requested_week \in 0..MaxWeek : PlanningMatrix(requested_week)
    \/ Tick

SpecMatrix == Init /\ [][NextMatrix]_vars

\* The planned dates of the plantings of the matrix slice, as <<plant date,
\* first harvest date, last harvest date>>: ISO weeks 10 to 45, 30 to 35 and
\* 10 to 20 of 2024, week 45 of 2024 to week 6 of 2025, and weeks 30 to 35 of
\* 2025
GridDates ==
    {<<64, 204, 315>>, <<204, 239, 245>>, <<64, 120, 140>>,
     <<309, 350, 400>>, <<568, 603, 609>>}

GridStatuses == {"planned", "skipped"}

\* The matrix reads neither the crop nor the crop profile of a planting
GridCrops == {c \in SeasonCrops : c.name = "carrot"}

GridPlantings ==
    {[NewPlanting(year, crop, crop_season, block, dates[1], 5)
        EXCEPT !.planned_first_harvest_date = dates[2],
               !.planned_last_harvest_date = dates[3],
               !.planned_total_yield = 10,
               !.status = status] :
        year \in PlanningYears, crop \in GridCrops, crop_season \in SeasonSeasons,
        block \in Blocks, dates \in GridDates, status \in GridStatuses}

\* The matrix over two saved plantings with all their planned dates, the
\* second one a planned planting of 2024
InitGrid ==
    /\ ledger = <<>>
    /\ calls = <<>>
    /\ today = 1
    /\ pc = [r \in Requests |-> "idle"]
    /\ req = [r \in Requests |-> NoRequest]
    /\ plantings \in {<<p, q>> : p \in GridPlantings,
                                q \in {r \in GridPlantings :
                                          r.planning_year = 2024 /\ r.status = "planned"}}
    /\ nursery = <<>>
    /\ harvests = <<>>
    /\ gen = NoGeneration
    /\ years = [y \in PlanningYears |-> IF y = 2024 THEN "active" ELSE "planning"]
    /\ history = {}
    /\ rules = [f \in Families |-> NoRule]
    /\ walk_notes = <<>>
    /\ channels = <<>>
    /\ formats = <<>>
    /\ view = NoView

NextGrid ==
    \/ \E requested_week \in 0..MaxWeek : PlanningMatrix(requested_week)
    \/ \E block \in Blocks, i \in 1..2 : PlantingBar(block, i)

SpecGrid == InitGrid /\ [][NextGrid]_vars

\* The sales channels of the revenue slice: weeks 20 to 40, weeks 40 to 10
\* (over the turn of the year) and weeks 1 to 52
RevenueChannels ==
    {[start_week |-> 20, end_week |-> 40, weekly_target |-> 500],
     [start_week |-> 40, end_week |-> 10, weekly_target |-> 200],
     [start_week |-> 1, end_week |-> 52, weekly_target |-> 100]}

RevenueChannelLists ==
    UNION {[1..n -> RevenueChannels] : n \in 0..MaxChannels}

\* The sales formats of the revenue slice: one of carrot by the unit and one,
\* active or not, of onion by the pair
RevenueFormatLists ==
    {<<[crop |-> "carrot", sale_price |-> 100, harvest_qty_per_sale_unit |-> 1,
        is_active |-> TRUE],
       [crop |-> "onion", sale_price |-> 50, harvest_qty_per_sale_unit |-> 2,
        is_active |-> active]>> : active \in BOOLEAN}

RevenueStatuses == {"harvesting", "skipped", "failed", "revised"}

\* The projection reads the name of the crop of a planting only
RevenueCrops == {c \in SeasonCrops : c.botanical_family # NoFamily}

RevenuePlantings ==
    {[PlantingSave(NewPlanting(2024, c, s, "A", 30, 5)) EXCEPT !.status = st] :
        c \in RevenueCrops, s \in SeasonSeasons, st \in RevenueStatuses}

\* HarvestEvent rows of planting i, planned for week 25 or 26 of 2024, with
\* the fields the projection reads: no actual quantity, one of 0 or one of 3
RevenueHarvests(i) ==
    [planting : {i}, planned_date : {171, 176}, planned_quantity : {4},
     actual_date : {NoDate}, actual_bins : {NoQuantity},
     actual_quantity : {NoQuantity, 0, 3}]

\* A season with two plantings, a carrot one of any status and an onion one
\* under harvest, one harvest event each, that of the onions not yet recorded
InitRevenue ==
    /\ ledger = <<>>
    /\ calls = <<>>
    /\ today = 1
    /\ pc = [r \in Requests |-> "idle"]
    /\ req = [r \in Requests |-> NoRequest]
    /\ plantings \in {<<p, q>> : p \in {r \in RevenuePlantings : r.crop.name = "carrot"},
                                q \in {r \in RevenuePlantings :
                                          /\ r.crop.name = "onion"
                                          /\ r.status = "harvesting"}}
    /\ nursery = <<>>
    /\ harvests \in {<<h, k>> : h \in RevenueHarvests(1),
                               k \in {e \in RevenueHarvests(2) :
                                         e.actual_quantity = NoQuantity}}
    /\ gen = [NoGeneration EXCEPT !.state = "done"]
    /\ years = [y \in PlanningYears |-> IF y = 2024 THEN "active" ELSE "planning"]
    /\ history = {}
    /\ rules = [f \in Families |-> NoRule]
    /\ walk_notes = <<>>
    /\ channels \in RevenueChannelLists
    /\ formats \in RevenueFormatLists
    /\ view = NoView

NextRevenue ==
    \/ RevenueProjection
    \/ DashboardWeekTarget

SpecRevenue == InitRevenue /\ [][NextRevenue]_vars

NextRoundOrder ==
    \E ounces \in {NoQuantity} \cup 0..MaxHundredths : RoundOrderCall(ounces)

SpecRoundOrder == Init /\ [][NextRoundOrder]_vars

-----------------------------------------------------------------------------
(* Properties of the inventory ledger *)

RECURSIVE SumQuantities(_, _)
SumQuantities(led, rows) ==
    IF rows = {} THEN 0
    ELSE LET i == CHOOSE i \in rows : TRUE
         IN led[i].quantity + SumQuantities(led, rows \ {i})

\* The sum of the signed quantities of the entries of the crop of row i that
\* are at or before row i in (event_date, creation order)
PrefixSum(led, i) ==
    SumQuantities(led, {j \in CropRows(led, led[i].crop) : AtOrBefore(led, j, i)})

\* C1: after any sequence of record operations, every stored entry's
\* running_balance is the sum of the signed quantities of the entries of its
\* crop at or before it in (event_date, creation order).
C1_LedgerConsistent ==
    \A i \in 1..Len(ledger) : ledger[i].running_balance = PrefixSum(ledger, i)

\* C2: when an entry is recorded at an event_date earlier than entries already
\* stored for the crop, the running_balance of each of those later entries
\* changes by the new entry's signed quantity (forward cascade).
C2_ForwardCascade ==
    [][Len(ledger') = Len(ledger) + 1 =>
         LET new == ledger'[Len(ledger')]
         IN \A i \in CropRows(ledger, new.crop) :
                ledger[i].event_date > new.event_date =>
                    ledger'[i].running_balance
                        = ledger[i].running_balance + new.quantity]_vars

\* C4: every entry created by form_valid has its quantity sign normalised by
\* event type, whatever the sign of the raw quantity: outflows are stored
\* non-positive with the magnitude entered, quality_check as zero, and every
\* other type non-negative with the magnitude entered.
C4_SignNormalised ==
    \A i \in 1..Len(ledger) :
        calls[i].via = "form" =>
            /\ ledger[i].event_type \in {"sale_out", "waste_out"} =>
                   ledger[i].quantity <= 0 /\ -ledger[i].quantity = Abs(calls[i].raw_qty)
            /\ ledger[i].event_type = "quality_check" => ledger[i].quantity = 0
            /\ ledger[i].event_type \in {"harvest_in", "return_in", "adjustment"} =>
                   ledger[i].quantity >= 0 /\ ledger[i].quantity = Abs(calls[i].raw_qty)

\* C4 witness: an inflow entered with a negative raw quantity and an outflow
\* entered with a positive one have both been recorded.
C4_Witness ==
    /\ \E i \in 1..Len(ledger) :
           /\ calls[i].via = "form" /\ calls[i].raw_qty < 0
           /\ ledger[i].event_type = "return_in" /\ ledger[i].quantity > 0
    /\ \E i \in 1..Len(ledger) :
           /\ calls[i].via = "form" /\ calls[i].raw_qty > 0
           /\ ledger[i].event_type = "sale_out" /\ ledger[i].quantity < 0

\* C5: a form_valid call whose resulting balance is negative is not rejected:
\* its entry is stored with that negative running_balance, and the call
\* returned the warning.
C5_NegativeBalanceRecorded ==
    /\ Len(calls) = Len(ledger)
    /\ \A i \in 1..Len(ledger) :
           calls[i].via = "form" /\ calls[i].new_balance < 0 =>
               /\ calls[i].warned
               /\ ledger[i].running_balance = calls[i].new_balance

\* C5 witness: a form_valid call has driven the balance of a crop negative.
C5_Witness ==
    \E i \in 1..Len(ledger) :
        /\ calls[i].via = "form" /\ calls[i].new_balance < 0
        /\ ledger[i].running_balance < 0 /\ calls[i].warned

\* The entry that is last in (event_date, creation order) among the entries of
\* the crop dated on or before day (0 when there is none)
LastAsOf(led, crop, day) ==
    LET past == {i \in CropRows(led, crop) : led[i].event_date <= day}
    IN IF past = {} THEN 0
       ELSE CHOOSE i \in past : \A j \in past : AtOrBefore(led, j, i)

\* C6: the latest balance the inventory dashboard and the main dashboard
\* report for a crop is the running_balance of the entry that is last in
\* (event_date, creation order) among the entries of the crop dated on or
\* before today.
C6_LatestBalanceAsOfToday ==
    \A item \in InventoryDashboardItems(ledger) \cup DashboardItems(ledger, today) :
        /\ LastAsOf(ledger, item.crop, today) # 0
        /\ item.balance = ledger[LastAsOf(ledger, item.crop, today)].running_balance


-----------------------------------------------------------------------------
(* Properties of concurrent record calls *)

\* C3: two form_valid calls for the same crop that run concurrently are
\* serialised: once both have inserted, the entry that is later in
\* (event_date, creation order) has a running_balance that includes the signed
\* quantity of the other (every balance is the prefix sum).
C3_NoLostUpdate ==
    (\A r \in Requests : pc[r] = "done") =>
        \A i \in 1..Len(ledger) : ledger[i].running_balance = PrefixSum(ledger, i)

-----------------------------------------------------------------------------
(* Properties of harvest recording and of the event generator *)

\* C7: whenever an actual harvest is recorded for a harvest event through
\* WeeklyHarvestEntryView.post (record_bins), a harvest_in entry for the crop
\* of its planting is recorded in the inventory ledger.
C7_HarvestInRecorded ==
    [][\A id \in 1..Len(harvests) :
           (id <= Len(harvests') /\ harvests'[id].actual_date # harvests[id].actual_date) =>
               /\ Len(ledger') > Len(ledger)
               /\ LET new == ledger'[Len(ledger')]
                  IN /\ new.event_type = "harvest_in"
                     /\ new.crop = plantings[harvests[id].planting].crop.name]_vars

\* C8: event generation is idempotent: when generate_nursery_events and
\* generate_harvest_events have run again for a planting that was not changed
\* since the run before, the child events are those that existed after the
\* run before (no event is duplicated).
C8_GenerationIdempotent ==
    (gen.state = "done" /\ gen.run >= 2 /\ gen.rerun_unchanged) =>
        /\ Len(nursery) = gen.nursery_before
        /\ Len(harvests) = gen.harvests_before

\* The dates first + 7k (k = 0, 1, ...) that are not after last
ExpectedHarvestDates(first, last) == {d \in first..last : (d - first) % 7 = 0}

\* The rows a run of the generator has created so far
NewHarvests == SubSeq(harvests, gen.harvests_before + 1, Len(harvests))
NewNursery == SubSeq(nursery, gen.nursery_before + 1, Len(nursery))

HarvestRunExact ==
    gen.state = "done" =>
        LET first == gen.first
            last == gen.last
        IN /\ \A d \in ExpectedHarvestDates(first, last) :
                  Cardinality({i \in 1..Len(NewHarvests) :
                                  NewHarvests[i].planned_date = d}) = 1
           /\ \A i \in 1..Len(NewHarvests) :
                  /\ NewHarvests[i].planned_date \in ExpectedHarvestDates(first, last)
                  /\ NewHarvests[i].planting = gen.planting
           /\ last = first + 21 => Len(NewHarvests) = 4

\* C9: a run of generate_harvest_events creates exactly one HarvestEvent for
\* each date planned_first_harvest_date + 7k that is not after
\* planned_last_harvest_date, and no others (4 events when last = first + 21
\* days), and its loop terminates for every pair of dates.
C9_HarvestEvents ==
    /\ []HarvestRunExact
    /\ (gen.state = "loop") ~> (gen.state = "done")

\* C9 witness: a run over a window of 21 days has returned with 4 events, the
\* last of them on the last harvest date.
C9_Witness ==
    /\ gen.state = "done"
    /\ gen.last = gen.first + 21
    /\ Len(NewHarvests) = 4
    /\ NewHarvests[4].planned_date = gen.last

\* C10: generate_nursery_events creates no event when nursery_weeks is 0;
\* otherwise one seed event at planned_plant_date - nursery_weeks, and, exactly
\* when weeks_until_pot_up > 0, also one pot_up event at seed date +
\* weeks_until_pot_up and one transplant event at planned_plant_date.
C10_NurseryEvents ==
    gen.state # "idle" =>
        LET p == plantings[gen.planting]
            seed_date == p.planned_plant_date - 7 * p.crop.nursery_weeks
            Of(type) == {i \in 1..Len(NewNursery) : NewNursery[i].event_type = type}
            OneAt(type, date) ==
                /\ Cardinality(Of(type)) = 1
                /\ \A i \in Of(type) : NewNursery[i].planned_date = date
        IN /\ \A i \in 1..Len(NewNursery) :
                  /\ NewNursery[i].planting = gen.planting
                  /\ NewNursery[i].event_type \in {"seed", "pot_up", "transplant"}
           /\ p.crop.nursery_weeks = 0 => NewNursery = <<>>
           /\ p.crop.nursery_weeks > 0 =>
                  /\ OneAt("seed", seed_date)
                  /\ p.crop.weeks_until_pot_up > 0 =>
                         /\ OneAt("pot_up", seed_date + 7 * p.crop.weeks_until_pot_up)
                         /\ OneAt("transplant", p.planned_plant_date)
                  /\ p.crop.weeks_until_pot_up = 0 =>
                         Of("pot_up") = {} /\ Of("transplant") = {}

\* C10 witness: the generator has run for a crop with a nursery lead time and
\* a pot-up that falls strictly between seeding and planting.
C10_Witness ==
    /\ gen.state = "done"
    /\ plantings[gen.planting].crop.nursery_weeks = 2
    /\ plantings[gen.planting].crop.weeks_until_pot_up = 1
    /\ Len(NewNursery) = 3
    /\ NewNursery[2].event_type = "pot_up"
    /\ NewNursery[2].planned_date = plantings[gen.planting].planned_plant_date - 7
    /\ NewNursery[3].event_type = "transplant"

-----------------------------------------------------------------------------
(* Properties of the derivation of the planned fields *)

PlannedFieldsSet(p) ==
    /\ p.planned_first_harvest_date # NoDate
    /\ p.planned_last_harvest_date # NoDate
    /\ p.planned_total_yield # NoQuantity

\* C11: a save of a planting whose planned_first_harvest_date,
\* planned_last_harvest_date and planned_total_yield are set (a save after an
\* edit of planned_plant_date or planned_bedfeet, or a second save with nothing
\* edited) leaves the three fields as they were.
C11_SaveKeepsPlannedFields ==
    [][\A id \in 1..Len(plantings) :
           PlannedFieldsSet(plantings[id]) =>
               /\ plantings'[id].planned_first_harvest_date
                      = plantings[id].planned_first_harvest_date
               /\ plantings'[id].planned_last_harvest_date
                      = plantings[id].planned_last_harvest_date
               /\ plantings'[id].planned_total_yield
                      = plantings[id].planned_total_yield]_vars

\* C12: the harvest dates Planting.save derives from the crop profile of a new
\* planting (dtm_days >= 0, harvest_weeks >= 0) satisfy
\* planned_last_harvest_date >= planned_first_harvest_date >= planned_plant_date.
C12_HarvestWindowOrdered ==
    [][(plantings = <<>> /\ plantings' # <<>>) =>
          LET p == plantings'[1]
          IN /\ p.planned_first_harvest_date >= p.planned_plant_date
             /\ p.planned_last_harvest_date >= p.planned_first_harvest_date]_vars

-----------------------------------------------------------------------------
(* Properties of recording by bin count *)

\* C13: record_bins for a crop with no units_per_bin fails and leaves the
\* harvest event as it was (no actual_bins, actual_date or actual_quantity is
\* stored); a harvest event is changed only for a crop with a conversion, and
\* then actual_quantity = bin count * units_per_bin and actual_date is the
\* recording date.
C13_RecordBinsConversion ==
    [][\A id \in 1..Len(harvests) :
           harvests'[id] # harvests[id] =>
               LET crop == plantings[harvests[id].planting].crop
               IN /\ crop.units_per_bin # 0
                  /\ harvests'[id].actual_quantity
                         = harvests'[id].actual_bins * crop.units_per_bin
                  /\ harvests'[id].actual_date = today]_vars

-----------------------------------------------------------------------------
(* Properties of the rotation checks *)

\* The entries of the block and the family with year in
\* [proposed_year - min_gap_years, proposed_year)
InRotationWindow(hist, rls, block, family, proposed_year) ==
    {r \in hist : /\ r.block = block
                  /\ r.botanical_family = family
                  /\ r.year >= proposed_year - rls[family]
                  /\ r.year < proposed_year}

\* C14: a rotation check for (block, family, proposed_year) reports a
\* violation exactly when a rule exists for the family and the history has an
\* entry of the block and the family with year in
\* [proposed_year - min_gap_years, proposed_year), and then reports the
\* required gap and the last-seen year; with no rule or no such entry it
\* reports ok.
C14_RotationCheck ==
    view.name \in {"clone_plan", "planting_detail"} =>
        LET violated ==
                /\ view.family # NoFamily
                /\ rules[view.family] # NoRule
                /\ InRotationWindow(history, rules, view.block, view.family,
                                    view.year) # {}
        IN /\ view.result.warning <=> violated
           /\ violated =>
                  /\ view.result.min_gap = rules[view.family]
                  /\ view.result.last_year =
                         MaxOf({r.year : r \in InRotationWindow(history, rules,
                                    view.block, view.family, view.year)})

-----------------------------------------------------------------------------
(* Properties of season completion and of the planting status *)

\* The planting that comes first in the order of the completed plantings
\* among those of the block that have a family
FirstSeen(order, block) ==
    LET at == {i \in 1..Len(order) :
                  /\ plantings[order[i]].block = block
                  /\ plantings[order[i]].crop.botanical_family # NoFamily}
    IN order[CHOOSE i \in at : \A j \in at : i <= j]

\* C15: after CompleteSeasonView.post, each (block, family) pair grown by a
\* completed planting of the year has at most one RotationHistory row of that
\* year, and the row of a block is that of the planting seen first: plantings
\* seen later for the block did not overwrite it.
C15_FirstSeenWins ==
    (view.name = "complete_season" /\ view.year # NoYear) =>
        \A i \in 1..Len(view.order) :
            LET p == plantings[view.order[i]]
                family == p.crop.botanical_family
            IN family # NoFamily =>
                   /\ Cardinality({r \in history :
                          /\ r.block = p.block /\ r.year = view.year
                          /\ r.botanical_family = family}) <= 1
                   /\ HistoryRow(p.block, view.year,
                          plantings[FirstSeen(view.order, p.block)].crop.botanical_family)
                          \in history

\* C16: CompleteSeasonView.post for the active year leaves no planting of that
\* year planted, growing or harvesting (they are complete), sets the status of
\* the year to complete, and leaves the status of every other planting (of a
\* status planned, seeded, failed, skipped, revised or complete, or of another
\* year) as it was.
C16_SeasonCompleted ==
    [][years' # years =>
          LET y == FirstYear(years, {"active"})
          IN /\ y # NoYear
             /\ years' = [years EXCEPT ![y] = "complete"]
             /\ Len(plantings') = Len(plantings)
             /\ \A id \in 1..Len(plantings) :
                    /\ plantings'[id].planning_year = y =>
                           plantings'[id].status
                               \notin {"planted", "growing", "harvesting"}
                    /\ plantings'[id].status =
                           IF /\ plantings[id].planning_year = y
                              /\ plantings[id].status
                                     \in {"planted", "growing", "harvesting"}
                           THEN "complete"
                           ELSE plantings[id].status]_vars

\* C16 witness: season completion has run for 2024 with a planting of 2024
\* that a harvest entry had taken to harvesting, now complete, and a planting
\* of 2025 still growing.
C16_Witness ==
    /\ view.name = "complete_season"
    /\ view.year = 2024
    /\ years[2024] = "complete"
    /\ \E id \in 1..Len(plantings) :
           /\ plantings[id].planning_year = 2024
           /\ plantings[id].actual_first_harvest_date # NoDate
           /\ plantings[id].status = "complete"
    /\ \E id \in 1..Len(plantings) :
           /\ plantings[id].planning_year = 2025
           /\ plantings[id].status = "growing"

\* C17: once the status of a planting is failed or skipped, no operation
\* (harvest entry, field walk note, season completion) changes it.
C17_FailedSkippedTerminal ==
    [][\A id \in 1..Len(plantings) :
           plantings[id].status \in {"failed", "skipped"} =>
               plantings'[id].status = plantings[id].status]_vars

-----------------------------------------------------------------------------
(* Properties of the seed order report *)

\* The rungs of the ladder below 4 oz, for a need of x hundredths of an ounce
LadderBelowFour(x, size) ==
    /\ x < 10 => size = OrderSize(1, 1, "pkt", FALSE)
    /\ (10 <= x /\ x < 25) => size = OrderSize(1, 4, "oz", FALSE)
    /\ (25 <= x /\ x < 50) => size = OrderSize(1, 2, "oz", FALSE)
    /\ (50 <= x /\ x < 100) => size = OrderSize(1, 1, "oz", FALSE)
    /\ (100 <= x /\ x < 400) =>
           /\ size.unit = "oz" /\ size.denominator = 1 /\ ~size.pounds_shown
           /\ 100 * size.numerator >= x /\ 100 * (size.numerator - 1) < x

\* C18 as stated: the order size for a need of x ounces follows the ladder
\* x < 0.1: 1 packet; < 0.25: 1/4 oz; < 0.5: 1/2 oz; < 1: 1 oz; < 4: ceiling
\* ounces; x >= 4: the ceiling in pounds.
C18_LadderCeilingPounds ==
    (view.name = "round_order" /\ view.ounces # NoQuantity) =>
        /\ LadderBelowFour(view.ounces, view.result)
        /\ view.ounces >= 400 =>
               /\ view.result.unit = "lb" /\ view.result.denominator = 1
               /\ 1600 * view.result.numerator >= view.ounces
               /\ 1600 * (view.result.numerator - 1) < view.ounces

\* C18, amended: the ladder below 4 oz is as stated; for 4 <= x < 16 the order
\* size is the ceiling in ounces, with the figure in pounds shown beside it,
\* and for x >= 16 it is the ceiling in pounds.
C18_Ladder ==
    (view.name = "round_order" /\ view.ounces # NoQuantity) =>
        /\ LadderBelowFour(view.ounces, view.result)
        /\ (400 <= view.ounces /\ view.ounces < 1600) =>
               /\ view.result.unit = "oz" /\ view.result.denominator = 1
               /\ view.result.pounds_shown
               /\ 100 * view.result.numerator >= view.ounces
               /\ 100 * (view.result.numerator - 1) < view.ounces
        /\ view.ounces >= 1600 =>
               /\ view.result.unit = "lb" /\ view.result.denominator = 1
               /\ 1600 * view.result.numerator >= view.ounces
               /\ 1600 * (view.result.numerator - 1) < view.ounces

\* C18 witness: a need of 5 oz has been rounded to 5 oz with the figure in
\* pounds beside it.
C18_Witness ==
    /\ view.name = "round_order"
    /\ view.ounces = 500
    /\ view.result = OrderSize(5, 1, "oz", TRUE)

\* The sum of the planned bed-feet of a set of plantings
RECURSIVE SumBedfeet(_)
SumBedfeet(ids) ==
    IF ids = {} THEN 0
    ELSE LET id == CHOOSE id \in ids : TRUE
         IN plantings[id].planned_bedfeet + SumBedfeet(ids \ {id})

\* The requirement of an entry was computed from its total bed-feet with the
\* profile of a planting of its crop
RequirementFromTotal(e, ids) ==
    \E id \in ids :
        LET result == CalculateSeeds(e.crop, plantings[id].crop_season,
                                     e.total_bedfeet, OverplantFactor)
        IN /\ e.method = result.method
           /\ e.seeds_needed = result.seeds_needed
           /\ e.ounces_needed = result.ounces_needed

\* The report has one entry for each crop of the plantings counted, with the
\* sum of their bed-feet as its total and a requirement computed from the
\* total, and every planting counted is in the total of one entry
AggregatedOver(counted) ==
    /\ \A crop \in {plantings[id].crop : id \in counted} :
           LET ids == {id \in counted : plantings[id].crop = crop}
               entries == {e \in view.seed_orders : e.crop = crop}
           IN /\ Cardinality(entries) = 1
              /\ \A e \in entries :
                     /\ e.total_bedfeet = SumBedfeet(ids)
                     /\ e.num_plantings = Cardinality(ids)
                     /\ RequirementFromTotal(e, ids)
    /\ \A e \in view.seed_orders : \E id \in counted : plantings[id].crop = e.crop

\* C19 as stated: the seed report computes the requirement of each crop once,
\* from the total planned bed-feet of every planting of the crop in the
\* planning year, and the bed-feet of every such planting is in the total of
\* exactly one crop.
C19_AggregatesEveryPlanting ==
    view.name = "seed_order" =>
        AggregatedOver({id \in 1..Len(plantings) :
                           plantings[id].planning_year = view.year})

\* C19, amended: the plantings the report counts are those of the planning
\* year whose status is not skipped.
C19_AggregatesPlantings ==
    view.name = "seed_order" =>
        AggregatedOver({id \in 1..Len(plantings) :
                           /\ plantings[id].planning_year = view.year
                           /\ plantings[id].status # "skipped"})

\* C19 witness: the report has one entry for two plantings of a crop, with a
\* total of 10 bed-feet and the seeds of 10 bed-feet (2 rows, 2 seeds a foot,
\* overplant 1.10).
C19_Witness ==
    /\ view.name = "seed_order"
    /\ Len(view.order) = 2
    /\ plantings[1].planned_bedfeet = 5 /\ plantings[2].planned_bedfeet = 5
    /\ \E e \in view.seed_orders :
           /\ view.seed_orders = {e}
           /\ e.total_bedfeet = 10 /\ e.num_plantings = 2
           /\ e.method = "direct_seed" /\ e.seeds_needed = 44

-----------------------------------------------------------------------------
(* Properties of the planning matrix *)

MatrixShown == view.name = "matrix" /\ ~view.no_year /\ view.center_week \in 1..52

\* C20 as stated: for every center week in 1..52 the window is exactly 16
\* weeks long, starts at max(1, center - 4), ends at window_start + 15 and
\* lies within [1, 52].
C20_WindowSixteenWeeks ==
    MatrixShown =>
        /\ view.week_start = Max2(1, view.center_week - 4)
        /\ view.week_end = view.week_start + 15
        /\ view.week_end - view.week_start + 1 = 16
        /\ 1 <= view.week_start /\ view.week_end <= 52

\* C20, amended: for every center week in 1..52 the window starts at
\* max(1, center - 4), ends at min(52, window_start + 15) and lies within
\* [1, 52]; it is exactly 16 weeks long for a center of at most 41 (center 30
\* gives [26, 41]) and runs from center - 4 to week 52, shorter than 16 weeks,
\* for a center of 42 or more.
C20_MatrixWindow ==
    MatrixShown =>
        /\ view.week_start = Max2(1, view.center_week - 4)
        /\ view.week_end = Min2(52, view.week_start + 15)
        /\ 1 <= view.week_start /\ view.week_start <= view.week_end
        /\ view.week_end <= 52
        /\ view.center_week <= 41 =>
               /\ view.week_end = view.week_start + 15
               /\ view.week_end - view.week_start + 1 = 16
        /\ view.center_week >= 42 =>
               /\ view.week_start = view.center_week - 4
               /\ view.week_end = 52
               /\ view.week_end - view.week_start + 1 < 16
        /\ view.center_week = 30 => view.week_start = 26 /\ view.week_end = 41

\* C20 witness: the matrix has been shown for center week 30, with the window
\* [26, 41].
C20_Witness ==
    /\ MatrixShown
    /\ view.center_week = 30
    /\ view.week_start = 26
    /\ view.week_end = 41

-----------------------------------------------------------------------------
(* Properties of the matrix layout *)

GridShown == view.name = "matrix" /\ ~view.no_year

\* The positions of the rows of planting id in the matrix row of a block
RowsOf(block, id) ==
    {i \in DOMAIN view.matrix[block] : view.matrix[block][i].planting = id}

\* The planting appears once in the row of its block and in no other row
AppearsInMatrix(id) ==
    /\ Cardinality(RowsOf(plantings[id].block, id)) = 1
    /\ \A block \in Blocks \ {plantings[id].block} : RowsOf(block, id) = {}

OmittedFromMatrix(id) == \A block \in Blocks : RowsOf(block, id) = {}

\* The interval of week numbers [plant_week, last_harvest_week] of the
\* planting has a week in common with the window shown
WeeksIntersectWindow(id) ==
    \E w \in IsoWeek(plantings[id].planned_plant_date) ..
              IsoWeek(plantings[id].planned_last_harvest_date) :
        w \in view.week_start..view.week_end

\* The segment of the planting has the bounds of section 4.5
SegmentClamped(id) ==
    \A i \in RowsOf(plantings[id].block, id) :
        LET row == view.matrix[plantings[id].block][i]
            plant_week == IsoWeek(plantings[id].planned_plant_date)
            harvest_end_week == IsoWeek(plantings[id].planned_last_harvest_date)
        IN /\ row.col_start = Max2(view.week_start, plant_week) - view.week_start
           /\ row.col_span = Min2(view.week_end, harvest_end_week)
                                - (view.week_start + row.col_start) + 1
           /\ (plant_week = 10 /\ harvest_end_week = 45
                  /\ view.week_start = 26 /\ view.week_end = 41)
                  => row.col_start = 0 /\ row.col_span = 16

\* C21 as stated: a planting (of the planning year shown) appears in the
\* matrix row of its block exactly when its [plant_week, last_harvest_week]
\* interval intersects the visible window, and then with the clamped col_start
\* and col_span; plantings wholly outside are omitted.
C21_VisibleIffWeeksIntersect ==
    GridShown =>
        \A id \in DOMAIN plantings :
            plantings[id].planning_year = view.year =>
                /\ WeeksIntersectWindow(id) => AppearsInMatrix(id)
                /\ ~WeeksIntersectWindow(id) => OmittedFromMatrix(id)
                /\ SegmentClamped(id)

\* The planned dates of the planting overlap the dates of the window, from the
\* Monday of its first week to the Sunday of its last week in the year shown
DatesOverlapWindow(id) ==
    /\ plantings[id].planned_plant_date <= WeekSunday(view.year, view.week_end)
    /\ plantings[id].planned_last_harvest_date
           >= WeekMonday(view.year, view.week_start)

\* C21, amended: a planting appears in the matrix row of its block exactly
\* when it belongs to the planning year shown, is not skipped, its planned
\* dates overlap the dates of the window and its [plant_week,
\* last_harvest_week] interval of week numbers intersects the window; it then
\* appears once, with col_start = max(window_start, plant_week) - window_start
\* and col_span = min(window_end, harvest_end_week) - (window_start +
\* col_start) + 1 (weeks [10, 45] in window [26, 41] give 0 and 16); every
\* other planting, a skipped one included, is omitted.
C21_MatrixSegments ==
    GridShown =>
        \A id \in DOMAIN plantings :
            LET shown == /\ plantings[id].planning_year = view.year
                         /\ plantings[id].status # "skipped"
                         /\ DatesOverlapWindow(id)
                         /\ WeeksIntersectWindow(id)
            IN /\ shown => AppearsInMatrix(id)
               /\ ~shown => OmittedFromMatrix(id)
               /\ SegmentClamped(id)

\* C21 witness: a planting spanning weeks [10, 45] is shown in the window
\* [26, 41] with col_start 0 and col_span 16.
C21_Witness ==
    /\ GridShown
    /\ view.week_start = 26 /\ view.week_end = 41
    /\ \E id \in DOMAIN plantings :
           /\ IsoWeek(plantings[id].planned_plant_date) = 10
           /\ IsoWeek(plantings[id].planned_last_harvest_date) = 45
           /\ \E i \in RowsOf(plantings[id].block, id) :
                  /\ view.matrix[plantings[id].block][i].col_start = 0
                  /\ view.matrix[plantings[id].block][i].col_span = 16

RECURSIVE SumColspans(_, _)
SumColspans(cells, i) ==
    IF i > Len(cells) THEN 0 ELSE cells[i].colspan + SumColspans(cells, i + 1)

\* The grid column (counted from 1) at which cell i of a rendered bar starts
ColumnOf(cells, i) == SumColspans(SubSeq(cells, 1, i - 1), 1) + 1

\* C28: every grid segment produced by _build_matrix has col_start >= 0,
\* col_span >= 1 and col_start + col_span <= the number of weeks of the
\* window, so that render_planting_bar emits exactly one cell position per
\* window week (each fallow cell at the column of its own week, the bar over
\* the others) and never indexes outside the list of weeks.
C28_SegmentsWithinWindow ==
    /\ GridShown =>
           \A block \in Blocks : \A i \in DOMAIN view.matrix[block] :
               LET row == view.matrix[block][i]
               IN /\ row.col_start >= 0
                  /\ row.col_span >= 1
                  /\ row.col_start + row.col_span
                         <= view.week_end - view.week_start + 1
    /\ view.name = "planting_bar" =>
           /\ SumColspans(view.cells, 1) = Len(view.week_nums)
           /\ \A i \in DOMAIN view.cells :
                  /\ view.cells[i].colspan >= 1
                  /\ view.cells[i].class = "fallow" =>
                         /\ view.cells[i].week # NoWeek
                         /\ view.cells[i].week
                                = view.week_nums[ColumnOf(view.cells, i)]
           /\ Cardinality({i \in DOMAIN view.cells :
                               view.cells[i].class # "fallow"}) = 1

\* C28 witness: a bar has been rendered in a 16-week window for a segment
\* with fallow weeks before and after it.
C28_Witness ==
    /\ view.name = "planting_bar"
    /\ Len(view.week_nums) = 16
    /\ view.row.col_start > 0
    /\ view.row.col_start + view.row.col_span < 16
    /\ view.row.plant_week <= view.row.harvest_end

-----------------------------------------------------------------------------
(* Properties of the revenue projection *)

RevenueShown == view.name = "revenue_projection" /\ view.error = ""

\* The harvest events of the year shown, planned for week wk, of a crop, whose
\* planting is not skipped, failed or revised
CountedEvents(wk, crop) ==
    {i \in DOMAIN harvests :
        /\ plantings[harvests[i].planting].planning_year = view.year
        /\ plantings[harvests[i].planting].status
               \notin {"skipped", "failed", "revised"}
        /\ plantings[harvests[i].planting].crop.name = crop
        /\ IsoWeek(harvests[i].planned_date) = wk}

\* The actual quantity of the events that have one recorded (0 included), the
\* planned quantity of the others, added up
RECURSIVE ActualElsePlanned(_)
ActualElsePlanned(events) ==
    IF events = {} THEN 0
    ELSE LET i == CHOOSE i \in events : TRUE
         IN (IF harvests[i].actual_quantity # NoQuantity
             THEN harvests[i].actual_quantity
             ELSE harvests[i].planned_quantity)
                + ActualElsePlanned(events \ {i})

\* The supply bucket (wk, crop) of the projection shown, 0 when it has none
SupplyBucket(wk, crop) ==
    IF wk \in DOMAIN view.weekly_supply
    THEN IF crop \in DOMAIN view.weekly_supply[wk]
         THEN view.weekly_supply[wk][crop] ELSE 0
    ELSE 0

\* C22: in the revenue projection each harvest event of a planting that is
\* not skipped, failed or revised contributes to the supply bucket (ISO week
\* of its planned date, crop) its actual quantity whenever one is recorded, a
\* recorded 0 included, and its planned quantity only when none is recorded;
\* the events of skipped, failed or revised plantings contribute nothing.
C22_SupplyActualElsePlanned ==
    RevenueShown =>
        \A wk \in 1..52, crop \in Crops :
            SupplyBucket(wk, crop) = ActualElsePlanned(CountedEvents(wk, crop))

\* A channel is active in week wk: from start_week to end_week, or, when
\* end_week < start_week, from start_week to 52 and from 1 to end_week
ActiveInWeek(ch, wk) ==
    IF ch.end_week < ch.start_week
    THEN ch.start_week <= wk \/ wk <= ch.end_week
    ELSE ch.start_week <= wk /\ wk <= ch.end_week

RECURSIVE TargetOfWeek(_, _)
TargetOfWeek(i, wk) ==
    IF i > Len(channels) THEN 0
    ELSE (IF ActiveInWeek(channels[i], wk) THEN channels[i].weekly_target ELSE 0)
             + TargetOfWeek(i + 1, wk)

\* C23: for every ISO week 1..52 the weekly revenue target (of the revenue
\* projection, and of the dashboard for the current week) is the sum of
\* weekly_target over the channels whose active range includes the week, a
\* channel with end_week < start_week being active in weeks start_week..52 and
\* 1..end_week.
C23_WeeklyTargetWraps ==
    /\ RevenueShown =>
           \A wk \in 1..52 : view.weekly[wk].target = TargetOfWeek(1, wk)
    /\ view.name = "dashboard" =>
           view.week_target = TargetOfWeek(1, view.current_week)

RECURSIVE SumGaps(_)
SumGaps(wk) == IF wk > 52 THEN 0 ELSE view.weekly[wk].gap + SumGaps(wk + 1)

\* C24: in the revenue projection the gap of each week is its projected
\* revenue minus its target, the weeks with a gap below 0 are the deficit
\* weeks and those with a gap above 0 the surplus weeks, and the annual gap
\* reported is the sum of the 52 weekly gaps (a target of 500 and a revenue of
\* 300 give a gap of -200).
C24_GapsAddUp ==
    RevenueShown =>
        /\ \A wk \in 1..52 :
               /\ view.weekly[wk].gap
                      = view.weekly[wk].projected_revenue - view.weekly[wk].target
               /\ (view.weekly[wk].target = 500
                      /\ view.weekly[wk].projected_revenue = 300)
                      => view.weekly[wk].gap = 0 - 200
        /\ view.gap_weeks = Cardinality({wk \in 1..52 : view.weekly[wk].gap < 0})
        /\ view.surplus_weeks = Cardinality({wk \in 1..52 : view.weekly[wk].gap > 0})
        /\ view.annual_gap = SumGaps(1)

-----------------------------------------------------------------------------
(* Properties of the batch harvest entry *)

\* The step has recorded the actual harvest of an event of the planting, an
\* event of the active planning year
RecordedInStep(pid) ==
    /\ plantings[pid].planning_year = FirstYear(years, {"active"})
    /\ \E i \in DOMAIN harvests :
           /\ harvests[i].planting = pid
           /\ harvests'[i] # harvests[i]
           /\ harvests'[i].actual_bins # NoQuantity
           /\ harvests'[i].actual_date = today

\* C25: a batch harvest submission changes the status of a planting to
\* harvesting only if it has recorded the actual harvest of at least one
\* harvest event of that planting belonging to the active planning year; a
\* bin value that fails to parse, or an event of another planning year, never
\* changes the status of a planting.
C25_HarvestingOnlyWhenRecorded ==
    [][\A pid \in DOMAIN plantings :
          (/\ plantings[pid].status # "harvesting"
           /\ plantings'[pid].status = "harvesting")
              => RecordedInStep(pid)]_vars

-----------------------------------------------------------------------------
(* Properties of the rotation history and of the two rotation checks *)

\* A rule set with a gap of one year for every family
OneYearRules == [f \in Families |-> 1]

\* C26: after the completion of the season of year Y, for every planting of Y
\* that was complete or harvesting, with a botanical family F, on block B, the
\* rotation history holds F for (B, Y), so that a later rotation check of
\* (B, F, Y + 1) under a rule with min_gap_years >= 1 (that of the clone
\* preview of Y) reports a violation, also when plantings of several families
\* were grown on the same block in Y.
C26_HistoryHoldsEveryFamily ==
    (view.name = "complete_season" /\ view.year # NoYear) =>
        \A i \in DOMAIN view.order :
            LET block == plantings[view.order[i]].block
                family == plantings[view.order[i]].crop.botanical_family
            IN family # NoFamily =>
                   /\ HistoryRow(block, view.year, family) \in history
                   /\ ClonePlanRotationCheck(history, OneYearRules, block, family,
                                             view.year).warning

\* C27: for the same block, botanical family, proposed year, rules and
\* rotation history, the warning of PlantingDetailView for a single planting
\* and the violation of ClonePlanUIView for a cloned plan give the same
\* verdict.
C27_SameVerdict ==
    /\ view.name = "clone_plan" =>
           view.result.warning
               = PlantingDetailRotationCheck(history, rules, view.block,
                                             view.family, view.year).warning
    /\ view.name = "planting_detail" =>
           view.result.warning
               = ClonePlanRotationCheck(history, rules, view.block, view.family,
                                        view.year - 1).warning

-----------------------------------------------------------------------------
(* Properties of the seed order across iteration orders *)

\* The orders in which the plantings of a list can be iterated
Reorderings(order) ==
    {other \in [DOMAIN order -> {order[i] : i \in DOMAIN order}] :
        \A i, j \in DOMAIN other : i # j => other[i] # other[j]}

\* C29: the seed order computed for a crop is the same whatever order its
\* plantings are iterated in, also when those plantings reference different
\* crop profiles of that crop.
C29_SeedOrderAnyIteration ==
    view.name = "seed_order" =>
        \A other \in Reorderings(view.order) :
            SeedOrders(plantings, other, OverplantFactor) = view.seed_orders

-----------------------------------------------------------------------------
(* The order of the nursery events *)

\* The place of a nursery event in the sequence seed, pot_up, transplant
NurseryRank(event_type) ==
    IF event_type = "seed" THEN 1 ELSE IF event_type = "pot_up" THEN 2 ELSE 3

\* C30: for every planting for which nursery events are generated, their
\* planned dates are ordered seed <= pot_up <= transplant, the transplant date
\* being planned_plant_date, for all values of nursery_weeks and
\* weeks_until_pot_up.
C30_NurseryDatesOrdered ==
    gen.state # "idle" =>
        /\ \A i, j \in 1..Len(NewNursery) :
               NurseryRank(NewNursery[i].event_type)
                   <= NurseryRank(NewNursery[j].event_type)
                   => NewNursery[i].planned_date <= NewNursery[j].planned_date
        /\ \A i \in 1..Len(NewNursery) :
               NewNursery[i].event_type = "transplant"
                   => NewNursery[i].planned_date
                          = plantings[gen.planting].planned_plant_date

====
